---- MODULE Spec2Model ----
(***************************************************************************)
(* Model of the camera / feedback backend (src/python-backend/main.py).    *)
(*                                                                         *)
(* The program is modelled as groups of state, with these specifications   *)
(* over the same variables:                                                *)
(*   SpecCapture  CameraManager: capture thread, frame buffer, get_jpeg    *)
(*   SpecPoll     latest_feedback and the /poll-feedback endpoint          *)
(*   SpecPollSeq  the same with one poll request in flight at a time       *)
(*   SpecConn     ConnectionManager and the /ws/camera handlers            *)
(*   SpecStore    the SQLite / Neon feedback stores and /feedback/latest   *)
(*   SpecVerdict  determine_image_productivity on bounded analysis texts   *)
(*   SpecAnalysis the analysis thread: classifier call, verdict, and the   *)
(*                writes of the record                                     *)
(***************************************************************************)
EXTENDS Integers, Sequences, FiniteSets, TLC

(***************************************************************************)
(* Bounds of the model.                                                    *)
(***************************************************************************)
\* frames the device delivers before every further capture fails
MaxCaptures == 5
\* stands for CameraManager.analysis_interval (main.py:152 sets 30), scaled
analysis_interval == 2
\* threads calling get_jpeg concurrently (/frame.jpg requests, ws handlers)
MaxGetters == 2
\* records written to latest_feedback
MaxRecords == 2
\* concurrent /poll-feedback requests
MaxPolls == 2
\* milliseconds the clock advances
MaxClock == 1
\* websocket connections opened
MaxConns == 2
\* feedback messages queued for broadcast
MaxMessages == 2
\* records handed to the feedback stores
MaxInserts == 2
\* pieces an analysis text is put together from
MaxWords == 2
\* analysis threads started
MaxSamples == 1
\* values of the random generator an analysis thread can draw
MaxDraws == 1
\* calls of stop()
MaxStops == 2
\* analysis threads running at the same time
MaxTasks == 2

Getters == 1..MaxGetters

\* Python's None: as a frame, as a text, and as a record (a value that may
\* be None is a sequence of at most one element)
None == 0

NoText == "None"

NoData == << >>

Some(v) == << v >>

\* an attribute or a local that does not exist yet
Unset == -1

VARIABLES
    \* ---- CameraManager ----
    running,        \* self._running
    last_jpeg,      \* self._last_jpeg: None or the id of a frame
    frame_count,    \* self.frame_count
    groq_client,    \* self.groq_client is set (a classifier is configured)
    lock,           \* self._lock: "free", or held by "capture" or by a "get"
    device,         \* picam2: "started" or "stopped"
    cpc,            \* position of the capture thread in _capture_loop
    cframe,         \* the capture thread's local jpeg_bytes / im
    devSeq,         \* frames delivered by the device so far
    dispatched,     \* frame numbers handed to _analyze_frame_async, in order
    gpc,            \* position of each get_jpeg caller
    gret,           \* value each get_jpeg caller returned last
    gresp,          \* the response frame_jpg gave for it last, if any
    stops,          \* calls of stop() so far
    stopStored,     \* frames stored when stop() was first called
    stopTpc,        \* where the analysis thread was when stop() was first called
    \* history kept for the properties
    stored,         \* the frames stored in the buffer, in order
    maxGot,         \* the newest frame any completed get_jpeg returned
    \* ---- latest_feedback and /poll-feedback ----
    now,            \* time.time() in milliseconds
    latest_feedback,\* the global dict latest_feedback
    ppc,            \* position of each poll_feedback request
    pres,           \* the response each poll_feedback request returned last, if any
    nrec,           \* number of records written to latest_feedback so far
    consumed,       \* per record: polls that cleared is_new while it was held
    jpc,            \* position of the /feedback.json request
    jn,             \* items of the returned dict its response has encoded
    jres,           \* the response body encoded so far
    jheld,          \* the values latest_feedback has held while it was encoded
    \* ---- ConnectionManager and the /ws/camera handlers ----
    active_connections, \* manager.active_connections: a list of handles
    message_queue,  \* manager.message_queue
    hpc,            \* position of each connection's ws_camera handler
    calive,         \* the client end of each connection is still open
    bmsg,           \* per handler: the message its broadcast is sending
    bidx,           \* per handler: items its broadcast's list iterator fetched
    btarget,        \* per handler: the connection its broadcast is sending to
    bstart,         \* per handler: the handles in the list when broadcast began
    got,            \* per open connection: feedback messages the client received
    nmsg,           \* feedback messages queued so far
    sendFailed,     \* per connection: a send_text on it raised
    lateSend,       \* per connection: a send succeeded after its removal
    attempts,       \* per connection: times its removal was asked for
    removals,       \* per connection: times it was taken off the list
    removeRaised,   \* list.remove was called for a handle not in the list
    \* ---- feedback stores and /feedback/latest ----
    neon_url,       \* NEON_DATABASE_URL is set
    local_rows,     \* rows of table feedback in the SQLite file
    neon_rows,      \* rows of table feedback in the Neon database
    ipc,            \* position of the analysis thread in its two inserts
    irec,           \* the record that thread is inserting
    tried,          \* inserts attempted for that record, per store
    inserted,       \* the records handed to the inserts, in order
    local_ok,       \* which of them (by position) the SQLite insert stored
    neon_ok,        \* which of them (by position) the Neon insert stored
    fpc,            \* position of the feedback_latest request
    fres,           \* the response feedback_latest returned last, if any
    fneon,          \* how that request's read of Neon went
    flocal,         \* that request read SQLite
    fexpect,        \* newest record stored in the serving store when read
    fquiet,         \* no insert was in progress while the request ran
    \* ---- determine_image_productivity ----
    d_analysis,     \* the argument analysis: a text, as a sequence of characters
    d_feedback,     \* the value returned, NoText before the call returns
    d_webcam,       \* the value src/groq/webcam.py returns for the same text
    d_analyzer,     \* the value groq_camera_analyzer.py returns for it
    d_integrated,   \* the value groq_integrated_main.py returns for it
    \* ---- the analysis thread started by _analyze_frame_async ----
    sink_url,       \* FEEDBACK_SINK_URL is set
    feedback_file,  \* content of the plaintext feedback file, NoText if none
    sink_posts,     \* the posts the external sink accepted, in order
    nsamples,       \* analysis threads started so far
    tpc,            \* position of the analysis thread in analyze()
    tframe,         \* its frame_number
    tanalysis,      \* its local analysis: no value yet, or a text or None
    tfeedback,      \* its local feedback
    tstamp,         \* its local current_timestamp
    tcall,          \* how its classifier call went: "none", "ok", "failed"
    tfailed,        \* the steps of it that raised
    tcontent,       \* what its classifier call returned, if it returned
    tsteps,         \* the steps it has made after the verdict, in order
    tcalls,         \* the outbound calls its post_feedback_to_sink has made
    tseen,          \* the len(manager.active_connections) it read, Unset before
    \* ---- GroqCameraManager of groq_integrated_main.py, while __init__ runs ----
    g_init,         \* position of __init__ after self._thread.start()
    g_frame_count,  \* self.frame_count, Unset while the attribute does not exist
    g_groq_client,  \* self.groq_client: "unset", "none" or "client"
    g_interval,     \* self.analysis_interval, Unset while it does not exist
    g_lock,         \* self._lock: "free" or held by "capture"
    g_cpc,          \* position of the capture thread in _capture_loop
    g_last_jpeg,    \* self._last_jpeg
    g_read,         \* the value self.frame_count += 1 has loaded
    g_stored,       \* number of frames stored in self._last_jpeg so far
    \* ---- analysis threads running at the same time ----
    wpc,            \* position of each analysis thread in analyze()
    wanswer,        \* its locals analysis and feedback, once it has them
    wstamp          \* its local current_timestamp, 0 before it is taken

capVars == << running, last_jpeg, frame_count, groq_client, lock, device, cpc,
              cframe, devSeq, dispatched, gpc, gret, stored, maxGot, gresp,
              stops, stopStored, stopTpc >>

\* what only get_jpeg callers and stop() write
getStopVars == << gresp, stops, stopStored, stopTpc >>

\* the /feedback.json request
jsonVars == << jpc, jn, jres, jheld >>

pollVars == << now, latest_feedback, ppc, pres, nrec, consumed, jsonVars >>

connVars == << active_connections, message_queue, hpc, calive, bmsg, bidx,
               btarget, bstart, got, nmsg, sendFailed, lateSend, attempts,
               removals, removeRaised >>

storeVars == << neon_url, local_rows, neon_rows, ipc, irec, tried, inserted,
                local_ok, neon_ok, fpc, fres, fneon, flocal, fexpect, fquiet >>

verdictVars == << d_analysis, d_feedback, d_webcam, d_analyzer, d_integrated >>

\* the verdicts of the other three files
otherVerdicts == << d_webcam, d_analyzer, d_integrated >>

anaVars == << sink_url, feedback_file, sink_posts, nsamples, tpc, tframe,
              tanalysis, tfeedback, tstamp, tcall, tfailed, tcontent,
              tsteps, tcalls, tseen >>

\* history of the analysis thread kept for the properties
taskNotes == << tcontent, tsteps, tcalls >>

groqVars == << g_init, g_frame_count, g_groq_client, g_interval, g_lock, g_cpc,
               g_last_jpeg, g_read, g_stored >>

taskVars == << wpc, wanswer, wstamp >>

vars == << capVars, pollVars, connVars, storeVars, verdictVars, anaVars,
           groqVars, taskVars >>

\* what the actions of one group leave alone
notCap == << anaVars, pollVars, connVars, storeVars, verdictVars, groqVars,
             taskVars >>

notPoll == << anaVars, capVars, connVars, storeVars, verdictVars, groqVars,
             taskVars >>

notConn == << anaVars, capVars, pollVars, storeVars, verdictVars, groqVars,
             taskVars >>

\* the clock is the one store actions read
notStore == << anaVars, capVars, latest_feedback, ppc, pres, nrec, consumed,
              jsonVars, connVars, verdictVars, groqVars, taskVars >>

notVerdict == << capVars, pollVars, connVars, storeVars, anaVars, groqVars,
             taskVars >>

notGroq == << capVars, pollVars, connVars, storeVars, verdictVars, anaVars,
             taskVars >>

\* what the analysis thread never writes: it writes latest_feedback, the two
\* tables and the message queue besides its own state
notAna == << capVars, now, ppc, pres, nrec, consumed, jsonVars,
            active_connections, hpc,
            calive, bmsg, bidx, btarget, bstart, got, nmsg, sendFailed,
            lateSend, attempts, removals, removeRaised, neon_url, ipc, irec,
            tried, inserted, local_ok, neon_ok, fpc, fres, fneon, flocal,
            fexpect, fquiet, verdictVars, groqVars, taskVars >>

\* what analysis threads running side by side never write
notTasks == << capVars, now, ppc, pres, nrec, consumed, jpc, jn, jres,
              active_connections, hpc, calive, bmsg, bidx, btarget, bstart,
              got, nmsg, sendFailed, lateSend, attempts, removals,
              removeRaised, neon_url, ipc, irec, tried, inserted, local_ok,
              neon_ok, fpc, fres, fneon, flocal, fexpect, fquiet, verdictVars,
              sink_url, nsamples, tpc, tframe, tanalysis, tfeedback, tstamp,
              tcall, tfailed, tcontent, tsteps, tcalls, tseen, groqVars >>

Last(s) == s[Len(s)]

Range(s) == { s[i] : i \in 1..Len(s) }

Max(a, b) == IF a >= b THEN a ELSE b

(***************************************************************************)
(* CameraManager                                                           *)
(***************************************************************************)
InitCam(clients) ==
    /\ running = TRUE
    /\ last_jpeg = None
    /\ frame_count = 0
    /\ groq_client \in clients
    /\ lock = "free"
    /\ device = "started"
    /\ cpc = "top"
    /\ cframe = None
    /\ devSeq = 0
    /\ dispatched = << >>
    /\ gpc = [g \in Getters |-> "idle"]
    /\ gret = [g \in Getters |-> None]
    /\ stored = << >>
    /\ maxGot = None
    /\ gresp = [g \in Getters |-> NoData]
    /\ stops = 0
    /\ stopStored = 0
    /\ stopTpc = "none"

WhileTrue(flag) == TRUE

\* while self._running:
WhileRunning(flag) == flag

LoopTop ==
    /\ cpc = "top"
    /\ cpc' = IF WhileRunning(running) THEN "capture" ELSE "done"
    /\ UNCHANGED << notCap, getStopVars, running, last_jpeg, frame_count, groq_client, lock, device,
                    cframe, devSeq, dispatched, gpc, gret, stored, maxGot >>

\* arr = self.picam2.capture_array(): a new frame, or an exception
CaptureArray ==
    /\ cpc = "capture"
    /\ \/ /\ device = "started"
          /\ devSeq < MaxCaptures
          /\ devSeq' = devSeq + 1
          /\ cframe' = devSeq + 1
          /\ cpc' = "encode"
       \/ /\ cpc' = "backoff"
          /\ UNCHANGED << devSeq, cframe >>
    /\ UNCHANGED << notCap, getStopVars, running, last_jpeg, frame_count, groq_client, lock, device,
                    dispatched, gpc, gret, stored, maxGot >>

\* im = Image.fromarray(...); im.save(buf, format="JPEG"); may raise
EncodeJpeg ==
    /\ cpc = "encode"
    /\ \/ cpc' = "acquire"
       \/ cpc' = "backoff"
    /\ UNCHANGED << notCap, getStopVars, running, last_jpeg, frame_count, groq_client, lock, device,
                    cframe, devSeq, dispatched, gpc, gret, stored, maxGot >>

\* with self._lock:
CaptureAcquire ==
    /\ cpc = "acquire"
    /\ lock = "free"
    /\ lock' = "capture"
    /\ cpc' = "store"
    /\ UNCHANGED << notCap, getStopVars, running, last_jpeg, frame_count, groq_client, device,
                    cframe, devSeq, dispatched, gpc, gret, stored, maxGot >>

\* the value the buffer holds after a store of frame f
StoreFirstWins(old, f) == IF old = None THEN f ELSE old

StoreValue(old, f) == f

\* self._last_jpeg = jpeg_bytes
StoreFrame ==
    /\ cpc = "store"
    /\ last_jpeg' = StoreValue(last_jpeg, cframe)
    /\ stored' = Append(stored, cframe)
    /\ cpc' = "count"
    /\ UNCHANGED << notCap, getStopVars, running, frame_count, groq_client, lock, device, cframe,
                    devSeq, dispatched, gpc, gret, maxGot >>

\* self.frame_count += 1
CountFrame ==
    /\ cpc = "count"
    /\ frame_count' = frame_count + 1
    /\ cpc' = "release"
    /\ UNCHANGED << notCap, getStopVars, running, last_jpeg, groq_client, lock, device, cframe,
                    devSeq, dispatched, gpc, gret, stored, maxGot >>

LockKeptAfterWith == "capture"

\* the with statement releases self._lock when its block is left
LockAfterWith == "free"

\* leaving the with block
CaptureRelease ==
    /\ cpc = "release"
    /\ lock' = LockAfterWith
    /\ cpc' = "check"
    /\ UNCHANGED << notCap, getStopVars, running, last_jpeg, frame_count, groq_client, device,
                    cframe, devSeq, dispatched, gpc, gret, stored, maxGot >>

ShouldAnalyzeWithoutClient(client, count) ==
    count % analysis_interval = 0

ShouldAnalyzeOffByOne(client, count) ==
    client /\ (count + 1) % analysis_interval = 0

\* if (self.groq_client and self.frame_count % self.analysis_interval == 0)
ShouldAnalyze(client, count) ==
    client /\ count % analysis_interval = 0

AfterDispatchJoined == "join"

\* _analyze_frame_async returns when analysis_thread.start() has: the thread
\* is a local of that call and is never joined
AfterDispatch == "sleep"

\* ... self._analyze_frame_async(im, self.frame_count): starts a thread
CheckAnalyze ==
    /\ cpc = "check"
    /\ dispatched' = IF ShouldAnalyze(groq_client, frame_count)
                     THEN Append(dispatched, frame_count)
                     ELSE dispatched
    /\ cpc' = IF ShouldAnalyze(groq_client, frame_count)
              THEN AfterDispatch ELSE "sleep"
    /\ UNCHANGED << notCap, getStopVars, running, last_jpeg, frame_count, groq_client, lock, device,
                    cframe, devSeq, gpc, gret, stored, maxGot >>

AfterExceptionFatal == "done"

AfterExceptionChecked == "check"

\* the except clause is inside the while loop: on to time.sleep(frame_interval)
AfterException == "sleep"

\* except Exception: time.sleep(0.1)
Backoff ==
    /\ cpc = "backoff"
    /\ cpc' = AfterException
    /\ UNCHANGED << notCap, getStopVars, running, last_jpeg, frame_count, groq_client, lock, device,
                    cframe, devSeq, dispatched, gpc, gret, stored, maxGot >>

\* time.sleep(frame_interval)
SleepFrame ==
    /\ cpc = "sleep"
    /\ cpc' = "top"
    /\ UNCHANGED << notCap, getStopVars, running, last_jpeg, frame_count, groq_client, lock, device,
                    cframe, devSeq, dispatched, gpc, gret, stored, maxGot >>

\* get_jpeg: with self._lock:
GetAcquire(g) ==
    /\ gpc[g] = "idle"
    /\ lock = "free"
    /\ lock' = "get"
    /\ gpc' = [gpc EXCEPT ![g] = "locked"]
    /\ UNCHANGED << notCap, getStopVars, running, last_jpeg, frame_count, groq_client, device, cpc,
                    cframe, devSeq, dispatched, gret, stored, maxGot >>

\* content=b""
EmptyBytes == -1

FrameJpgAlwaysOk(data) == [status_code |-> 200, content |-> data]

\* frame_jpg: data = camera.get_jpeg(); if not data: 503 with no bytes
frame_jpg(data) ==
    IF data = None \/ data = EmptyBytes
    THEN [status_code |-> 503, content |-> EmptyBytes]
    ELSE [status_code |-> 200, content |-> data]

\* get_jpeg: return self._last_jpeg (and the lock is released); the caller
\* frame_jpg builds its response
GetReturn(g) ==
    /\ gpc[g] = "locked"
    /\ gret' = [gret EXCEPT ![g] = last_jpeg]
    /\ maxGot' = Max(maxGot, last_jpeg)
    /\ gresp' = [gresp EXCEPT ![g] = Some(frame_jpg(last_jpeg))]
    /\ lock' = "free"
    /\ gpc' = [gpc EXCEPT ![g] = "idle"]
    /\ UNCHANGED << notCap, stops, stopStored, stopTpc, running, last_jpeg, frame_count, groq_client, device, cpc,
                    cframe, devSeq, dispatched, stored >>

\* picam2.stop(): the device is released, or the call raises and leaves it
\* as it was
ReleaseDevice(dev, raised) == IF raised THEN dev ELSE "stopped"

FlagToggled(flag) == ~flag

\* self._running = False
FlagAfterStop(flag) == FALSE

StopJoinsAnalysis == tpc \in {"none", "ended"}

\* stop() joins no thread and waits for nothing: it runs whatever the capture
\* thread and the analysis threads are doing
StopReady == TRUE

\* stop(): self._running = False; try: self.picam2.stop() except: pass
StopCall ==
    /\ StopReady
    /\ stops < MaxStops
    /\ stops' = stops + 1
    /\ stopStored' = IF stops = 0 THEN Len(stored) ELSE stopStored
    /\ stopTpc' = IF stops = 0 THEN tpc ELSE stopTpc
    /\ running' = FlagAfterStop(running)
    /\ \E raised \in BOOLEAN : device' = ReleaseDevice(device, raised)
    /\ UNCHANGED << notCap, last_jpeg, frame_count, groq_client, lock, cpc, cframe,
                    devSeq, dispatched, gpc, gret, stored, maxGot, gresp >>

\* stop() called on a running camera
Stop ==
    /\ running
    /\ StopCall

\* one step of the capture thread
CaptureStep ==
    \/ LoopTop
    \/ CaptureArray
    \/ EncodeJpeg
    \/ CaptureAcquire
    \/ StoreFrame
    \/ CountFrame
    \/ CaptureRelease
    \/ CheckAnalyze
    \/ Backoff
    \/ SleepFrame

NextCapture ==
    \/ LoopTop
    \/ CaptureArray
    \/ EncodeJpeg
    \/ CaptureAcquire
    \/ StoreFrame
    \/ CountFrame
    \/ CaptureRelease
    \/ CheckAnalyze
    \/ Backoff
    \/ SleepFrame
    \/ \E g \in Getters : GetAcquire(g)
    \/ \E g \in Getters : GetReturn(g)
    \/ Stop

\* the get_jpeg caller that contends with the capture thread for the lock
Contender == CHOOSE g \in Getters : TRUE

\* the same with stop() called any number of times and one get_jpeg caller
NextStop ==
    \/ LoopTop
    \/ CaptureArray
    \/ EncodeJpeg
    \/ CaptureAcquire
    \/ StoreFrame
    \/ CountFrame
    \/ CaptureRelease
    \/ CheckAnalyze
    \/ Backoff
    \/ SleepFrame
    \/ GetAcquire(Contender)
    \/ GetReturn(Contender)
    \/ StopCall

(***************************************************************************)
(* latest_feedback and the /poll-feedback endpoint                         *)
(***************************************************************************)
Polls == 1..MaxPolls

\* classifier answers with the feedback text determine_image_productivity
\* gives for them: <<analysis, feedback>>
Classified == { << "empty", "No person detected in the image" >>,
                << "watching TV", "WAKE UP! You need to get back to work immediately!" >> }

\* frame number of the k-th sampled frame
SampleFrame(k) == k * analysis_interval

\* Python truth value of a feedback text
Truthy(text) == text # NoText /\ text # ""

\* the values of the dict a response being encoded could take whole, after a
\* write to the dict
Held(fb) == IF jpc = "encoding" THEN jheld \cup {fb} ELSE jheld

\* the dict as the module creates it
NoFeedback == [feedback |-> NoText, analysis |-> NoText, frame_number |-> 0,
               timestamp |-> 0, is_new |-> FALSE]

InitPoll ==
    /\ now = 1
    /\ latest_feedback = NoFeedback
    /\ ppc = [p \in Polls |-> "idle"]
    /\ pres = [p \in Polls |-> NoData]
    /\ nrec = 0
    /\ consumed = [r \in 1..MaxRecords |-> 0]
    /\ jpc = "idle"
    /\ jn = 0
    /\ jres = NoFeedback
    /\ jheld = {}

\* time passes
Tick ==
    /\ now <= MaxClock
    /\ now' = now + 1
    /\ UNCHANGED << notPoll, latest_feedback, ppc, pres, nrec, consumed,
                    jsonVars >>

\* analyze(): latest_feedback.update({...}) with is_new True
RecordFeedback ==
    /\ nrec < MaxRecords
    /\ \E c \in Classified :
          latest_feedback' = [feedback |-> c[2], analysis |-> c[1],
                              frame_number |-> SampleFrame(nrec + 1),
                              timestamp |-> now, is_new |-> TRUE]
    /\ nrec' = nrec + 1
    /\ jheld' = Held(latest_feedback')
    /\ UNCHANGED << notPoll, now, ppc, pres, consumed, jpc, jn, jres >>

\* test_feedback(): latest_feedback.update({...}) with the test record
TestFeedback ==
    /\ nrec < MaxRecords
    /\ latest_feedback' = [feedback |-> "EXCELLENT! ... This is a test",
                           analysis |-> "Test analysis",
                           frame_number |-> 999, timestamp |-> now,
                           is_new |-> TRUE]
    /\ nrec' = nrec + 1
    /\ jheld' = Held(latest_feedback')
    /\ UNCHANGED << notPoll, now, ppc, pres, consumed, jpc, jn, jres >>

\* poll_feedback: if latest_feedback["is_new"] ...
PollTestNew(p) ==
    /\ ppc[p] = "idle"
    /\ ppc' = [ppc EXCEPT ![p] = IF latest_feedback.is_new
                                 THEN "test_feedback" ELSE "else"]
    /\ UNCHANGED << notPoll, now, latest_feedback, pres, nrec, consumed,
                    jsonVars >>

\* poll_feedback: ... and latest_feedback["feedback"]:
PollTestFeedback(p) ==
    /\ ppc[p] = "test_feedback"
    /\ ppc' = [ppc EXCEPT ![p] = IF Truthy(latest_feedback.feedback)
                                 THEN "clear" ELSE "else"]
    /\ UNCHANGED << notPoll, now, latest_feedback, pres, nrec, consumed,
                    jsonVars >>

ClearFlagForgotten(fb) == fb

\* latest_feedback["is_new"] = False
ClearFlag(fb) == [fb EXCEPT !.is_new = FALSE]

PollClear(p) ==
    /\ ppc[p] = "clear"
    /\ latest_feedback' = ClearFlag(latest_feedback)
    /\ consumed' = [consumed EXCEPT ![nrec] = @ + 1]
    /\ ppc' = [ppc EXCEPT ![p] = "then"]
    /\ jheld' = Held(latest_feedback')
    /\ UNCHANGED << notPoll, now, pres, nrec, jpc, jn, jres >>

\* return {"success": True, "has_new_feedback": True, "data": latest_feedback}
PollReturnNew(p) ==
    /\ ppc[p] = "then"
    /\ pres' = [pres EXCEPT ![p] = Some([has_new_feedback |-> TRUE,
                                         data |-> Some(latest_feedback)])]
    /\ ppc' = [ppc EXCEPT ![p] = "idle"]
    /\ UNCHANGED << notPoll, now, latest_feedback, nrec, consumed, jsonVars >>

\* return {"success": True, "has_new_feedback": False, "data": None}
PollReturnNone(p) ==
    /\ ppc[p] = "else"
    /\ pres' = [pres EXCEPT ![p] = Some([has_new_feedback |-> FALSE,
                                         data |-> NoData])]
    /\ ppc' = [ppc EXCEPT ![p] = "idle"]
    /\ UNCHANGED << notPoll, now, latest_feedback, nrec, consumed, jsonVars >>

\* a request arriving while no other request is being served
PollTestNewSeq(p) ==
    /\ \A q \in Polls : ppc[q] = "idle"
    /\ PollTestNew(p)

NextPoll ==
    \/ Tick
    \/ RecordFeedback
    \/ TestFeedback
    \/ \E p \in Polls : PollTestNew(p)
    \/ \E p \in Polls : PollTestFeedback(p)
    \/ \E p \in Polls : PollClear(p)
    \/ \E p \in Polls : PollReturnNew(p)
    \/ \E p \in Polls : PollReturnNone(p)

\* the keys of latest_feedback in the order the dict holds them
FeedbackKeys == << "feedback", "analysis", "frame_number", "timestamp", "is_new" >>

\* the encoder takes the items of the dict one by one: item k of body is
\* what the dict holds under its k-th key at that moment
EncodeItem(fb, body, k) == [body EXCEPT ![FeedbackKeys[k]] = fb[FeedbackKeys[k]]]

\* get_feedback_json: return latest_feedback -- the dict itself, which the
\* framework encodes into the response after the function has returned
GetFeedbackJson ==
    /\ jpc \in {"idle", "sent"}
    /\ jpc' = "encoding"
    /\ jn' = 0
    /\ jres' = NoFeedback
    /\ jheld' = {latest_feedback}
    /\ UNCHANGED << notPoll, now, latest_feedback, ppc, pres, nrec, consumed >>

\* the encoder reads the next item of the dict; after the last one the
\* response is sent
EncodeNextItem ==
    /\ jpc = "encoding"
    /\ jres' = EncodeItem(latest_feedback, jres, jn + 1)
    /\ jn' = jn + 1
    /\ jpc' = IF jn + 1 = Len(FeedbackKeys) THEN "sent" ELSE "encoding"
    /\ UNCHANGED << notPoll, now, latest_feedback, ppc, pres, nrec, consumed,
                    jheld >>

\* the poll_feedback request that runs beside the writers
Poller == CHOOSE p \in Polls : TRUE

\* the writers of latest_feedback with one reader of each kind
NextLatest ==
    \/ Tick
    \/ RecordFeedback
    \/ TestFeedback
    \/ PollTestNew(Poller)
    \/ PollTestFeedback(Poller)
    \/ PollClear(Poller)
    \/ PollReturnNew(Poller)
    \/ PollReturnNone(Poller)
    \/ GetFeedbackJson
    \/ EncodeNextItem

NextPollSeq ==
    \/ Tick
    \/ RecordFeedback
    \/ TestFeedback
    \/ \E p \in Polls : PollTestNewSeq(p)
    \/ \E p \in Polls : PollTestFeedback(p)
    \/ \E p \in Polls : PollClear(p)
    \/ \E p \in Polls : PollReturnNew(p)
    \/ \E p \in Polls : PollReturnNone(p)

(***************************************************************************)
(* ConnectionManager and the /ws/camera handlers.  The handlers are        *)
(* coroutines of one event loop: a handler runs without interruption from  *)
(* one await to the next, so each action is the code between two awaits.   *)
(***************************************************************************)
Conns == 1..MaxConns

InitConn ==
    /\ active_connections = << >>
    /\ message_queue = << >>
    /\ hpc = [c \in Conns |-> "new"]
    /\ calive = [c \in Conns |-> TRUE]
    /\ bmsg = [c \in Conns |-> 0]
    /\ bidx = [c \in Conns |-> 0]
    /\ btarget = [c \in Conns |-> 0]
    /\ bstart = [c \in Conns |-> {}]
    /\ got = [c \in Conns |-> << >>]
    /\ nmsg = 0
    /\ sendFailed = [c \in Conns |-> FALSE]
    /\ lateSend = [c \in Conns |-> FALSE]
    /\ attempts = [c \in Conns |-> 0]
    /\ removals = [c \in Conns |-> 0]
    /\ removeRaised = FALSE

\* list.remove(x): the list without the first occurrence of x
RemoveFirst(list, x) ==
    LET i == CHOOSE j \in 1..Len(list) :
                 list[j] = x /\ \A k \in 1..(j - 1) : list[k] # x
    IN  SubSeq(list, 1, i - 1) \o SubSeq(list, i + 1, Len(list))

RemoveUnguarded(list, x) ==
    IF x \in Range(list)
    THEN [list |-> RemoveFirst(list, x), removed |-> TRUE, raised |-> FALSE]
    ELSE [list |-> list, removed |-> FALSE, raised |-> TRUE]

\* if websocket in self.active_connections:
\*     self.active_connections.remove(websocket)
RemoveConnection(list, x) ==
    IF x \in Range(list)
    THEN [list |-> RemoveFirst(list, x), removed |-> TRUE, raised |-> FALSE]
    ELSE [list |-> list, removed |-> FALSE, raised |-> FALSE]

AfterPeek(q) == q

\* message = self.message_queue.get_nowait(): the head leaves the queue
AfterGet(q) == Tail(q)

\* process_queue entered (or resumed after a broadcast) by handler c with
\* queue q and connection list act; runs up to the first send_text it awaits,
\* or to asyncio.sleep when the queue is drained.  A broadcast over an empty
\* list awaits nothing, so with no connection every queued message is taken
\* and sent to nobody.
ProcessQueue(c, q, act) ==
    IF q = << >> \/ act = << >>
    THEN /\ message_queue' = << >>
         /\ hpc' = [hpc EXCEPT ![c] = "sleeping"]
         /\ bmsg' = [bmsg EXCEPT ![c] = 0]
         /\ bidx' = [bidx EXCEPT ![c] = 0]
         /\ btarget' = [btarget EXCEPT ![c] = 0]
         /\ bstart' = [bstart EXCEPT ![c] = {}]
    ELSE /\ message_queue' = AfterGet(q)
         /\ hpc' = [hpc EXCEPT ![c] = "bcast_sending"]
         /\ bmsg' = [bmsg EXCEPT ![c] = Head(q)]
         /\ bidx' = [bidx EXCEPT ![c] = 1]
         /\ btarget' = [btarget EXCEPT ![c] = act[1]]
         /\ bstart' = [bstart EXCEPT ![c] = Range(act)]

\* one pass of the while True loop of ws_camera up to its first await:
\* data = camera.get_jpeg(); if data: await ws.send_text(...), else on to
\* process_queue
LoopBody(c, act) ==
    \E data \in {None, 1} :
        IF data # None
        THEN /\ hpc' = [hpc EXCEPT ![c] = "frame_sending"]
             /\ UNCHANGED << message_queue, bmsg, bidx, btarget, bstart >>
        ELSE ProcessQueue(c, message_queue, act)

\* await manager.connect(ws): accept, append; then the first loop pass
Connect(c) ==
    /\ hpc[c] = "new"
    /\ active_connections' = Append(active_connections, c)
    /\ LoopBody(c, active_connections')
    /\ UNCHANGED << notConn, calive, got, nmsg, sendFailed, lateSend,
                    attempts, removals, removeRaised >>

\* exceptions a failed send_text can raise
SendErrors == {"WebSocketDisconnect", "other"}

\* await ws.send_text(frame) in ws_camera completes: on to process_queue, or
\* it raises: WebSocketDisconnect is caught and manager.disconnect(ws) runs,
\* any other exception ends the handler
FrameSent(c) ==
    /\ hpc[c] = "frame_sending"
    /\ IF calive[c]
       THEN /\ ProcessQueue(c, message_queue, active_connections)
            /\ lateSend' = [lateSend EXCEPT ![c] = @ \/ removals[c] > 0]
            /\ UNCHANGED << active_connections, sendFailed, attempts,
                            removals, removeRaised >>
       ELSE /\ sendFailed' = [sendFailed EXCEPT ![c] = TRUE]
            /\ \E exc \in SendErrors :
                  IF exc = "WebSocketDisconnect"
                  THEN LET r == RemoveConnection(active_connections, c)
                       IN  /\ active_connections' = r.list
                           /\ attempts' = [attempts EXCEPT ![c] = @ + 1]
                           /\ removals' = [removals EXCEPT ![c] =
                                              IF r.removed THEN @ + 1 ELSE @]
                           /\ removeRaised' = (removeRaised \/ r.raised)
                           /\ hpc' = [hpc EXCEPT ![c] = "disconnected"]
                  ELSE /\ hpc' = [hpc EXCEPT ![c] = "crashed"]
                       /\ UNCHANGED << active_connections, attempts,
                                       removals, removeRaised >>
            /\ UNCHANGED << message_queue, bmsg, bidx, btarget, bstart,
                            lateSend >>
    /\ UNCHANGED << notConn, calive, got, nmsg >>

\* broadcast: await connection.send_text(message) completes or raises (the
\* connection is then removed); the for loop fetches the next item of the
\* list, or ends and process_queue goes on
BroadcastSent(c) ==
    /\ hpc[c] = "bcast_sending"
    /\ LET t == btarget[c]
           r == IF calive[t]
                THEN [list |-> active_connections, removed |-> FALSE,
                      raised |-> FALSE]
                ELSE RemoveConnection(active_connections, t)
       IN  /\ active_connections' = r.list
           /\ got' = IF calive[t]
                     THEN [got EXCEPT ![t] = Append(@, bmsg[c])]
                     ELSE got
           /\ lateSend' = IF calive[t]
                          THEN [lateSend EXCEPT ![t] = @ \/ removals[t] > 0]
                          ELSE lateSend
           /\ sendFailed' = IF calive[t]
                            THEN sendFailed
                            ELSE [sendFailed EXCEPT ![t] = TRUE]
           /\ attempts' = IF calive[t]
                          THEN attempts
                          ELSE [attempts EXCEPT ![t] = @ + 1]
           /\ removals' = IF r.removed
                          THEN [removals EXCEPT ![t] = @ + 1]
                          ELSE removals
           /\ removeRaised' = (removeRaised \/ r.raised)
           /\ IF bidx[c] < Len(r.list)
              THEN /\ btarget' = [btarget EXCEPT ![c] = r.list[bidx[c] + 1]]
                   /\ bidx' = [bidx EXCEPT ![c] = @ + 1]
                   /\ UNCHANGED << message_queue, hpc, bmsg, bstart >>
              ELSE ProcessQueue(c, message_queue, r.list)
    /\ UNCHANGED << notConn, calive, nmsg >>

\* await asyncio.sleep(0.12) completes: the next loop pass
Wake(c) ==
    /\ hpc[c] = "sleeping"
    /\ LoopBody(c, active_connections)
    /\ UNCHANGED << notConn, active_connections, calive, got, nmsg,
                    sendFailed, lateSend, attempts, removals, removeRaised >>

\* the client of an accepted connection goes away: every later send_text on
\* the connection raises (what it had received is no longer followed)
ClientClose(c) ==
    /\ calive[c]
    /\ hpc[c] # "new"
    /\ calive' = [calive EXCEPT ![c] = FALSE]
    /\ got' = [got EXCEPT ![c] = << >>]
    /\ UNCHANGED << notConn, active_connections, message_queue, hpc, bmsg,
                    bidx, btarget, bstart, nmsg, sendFailed, lateSend,
                    attempts, removals, removeRaised >>

PutBounded(q, m) == IF Len(q) >= 1 THEN q ELSE Append(q, m)

\* queue.Queue() has no maxsize: put appends and never blocks
Put(q, m) == Append(q, m)

\* queue_message, called by an analysis thread: self.message_queue.put(...)
QueueMessage ==
    /\ nmsg < MaxMessages
    /\ nmsg' = nmsg + 1
    /\ message_queue' = Put(message_queue, nmsg + 1)
    /\ UNCHANGED << notConn, active_connections, hpc, calive, bmsg, bidx,
                    btarget, bstart, got, sendFailed, lateSend, attempts,
                    removals, removeRaised >>

NextConn ==
    \/ \E c \in Conns : Connect(c)
    \/ \E c \in Conns : FrameSent(c)
    \/ \E c \in Conns : BroadcastSent(c)
    \/ \E c \in Conns : Wake(c)
    \/ \E c \in Conns : ClientClose(c)
    \/ QueueMessage

\* no /ws/camera handler has been started yet
NoneOpened == \A c \in Conns : hpc[c] = "new"

\* queue_message called while no connection has been opened
QueueBeforeOpen ==
    /\ NoneOpened
    /\ QueueMessage

\* feedback messages queued before the first connection opens, then the
\* handlers of the connections
NextLate ==
    \/ QueueBeforeOpen
    \/ \E c \in Conns : Connect(c)
    \/ \E c \in Conns : FrameSent(c)
    \/ \E c \in Conns : BroadcastSent(c)
    \/ \E c \in Conns : Wake(c)
    \/ \E c \in Conns : ClientClose(c)

(***************************************************************************)
(* Feedback stores: the SQLite file, the optional Neon database, the two   *)
(* inserts an analysis thread makes for a record, and /feedback/latest.    *)
(***************************************************************************)
InitStore(urls) ==
    /\ neon_url \in urls
    /\ local_rows = {}
    /\ neon_rows = {}
    /\ ipc = "idle"
    /\ irec = NoData
    /\ tried = [local |-> 0, neon |-> 0]
    /\ inserted = << >>
    /\ local_ok = {}
    /\ neon_ok = {}
    /\ fpc = "idle"
    /\ fres = NoData
    /\ fneon = "none"
    /\ flocal = FALSE
    /\ fexpect = 0
    /\ fquiet = TRUE

MaxOf(S) == CHOOSE x \in S : \A y \in S : y <= x

MinOf(S) == CHOOSE x \in S : \A y \in S : x <= y

\* id INTEGER PRIMARY KEY AUTOINCREMENT / id SERIAL PRIMARY KEY
NextId(rows) == IF rows = {} THEN 1 ELSE MaxOf({ r.id : r \in rows }) + 1

InsertRowReplacing(rows, rec) ==
    { [id |-> 1, timestamp |-> rec.timestamp, frame_number |-> rec.frame_number,
       analysis |-> rec.analysis, feedback |-> rec.feedback] }

\* INSERT INTO feedback (timestamp, frame_number, analysis, feedback)
InsertRow(rows, rec) ==
    rows \cup { [id |-> NextId(rows), timestamp |-> rec.timestamp,
                 frame_number |-> rec.frame_number,
                 analysis |-> rec.analysis, feedback |-> rec.feedback] }

OldestRow(rows) ==
    IF rows = {} THEN NoData
    ELSE LET r == CHOOSE x \in rows : x.id = MinOf({ y.id : y \in rows })
         IN  Some([timestamp |-> r.timestamp, frame_number |-> r.frame_number,
                   analysis |-> r.analysis, feedback |-> r.feedback])

\* SELECT timestamp, frame_number, analysis, feedback FROM feedback
\* ORDER BY id DESC LIMIT 1; row = cur.fetchone()
LatestRow(rows) ==
    IF rows = {} THEN NoData
    ELSE LET r == CHOOSE x \in rows : x.id = MaxOf({ y.id : y \in rows })
         IN  Some([timestamp |-> r.timestamp, frame_number |-> r.frame_number,
                   analysis |-> r.analysis, feedback |-> r.feedback])

\* analyze() reaches its inserts with a record: feedback, analysis,
\* frame_number, current_timestamp
BeginInserts ==
    /\ ipc = "idle"
    /\ Len(inserted) < MaxInserts
    /\ \E c \in Classified :
          LET rec == [timestamp |-> now,
                      frame_number |-> SampleFrame(Len(inserted) + 1),
                      analysis |-> c[1], feedback |-> c[2]]
          IN  /\ irec' = Some(rec)
              /\ inserted' = Append(inserted, rec)
    /\ tried' = [local |-> 0, neon |-> 0]
    /\ ipc' = "local"
    /\ fquiet' = FALSE
    /\ UNCHANGED << notStore, now, neon_url, local_rows, neon_rows, local_ok,
                    neon_ok, fpc, fres, fneon, flocal, fexpect >>

AfterLocalInsertAborting(ok) == IF ok THEN "neon" ELSE "idle"

\* insert_feedback_row returns normally whether or not the insert failed
\* (except Exception: print), so analyze() goes on to neon_insert_feedback_row
AfterLocalInsert(ok) == "neon"

\* insert_feedback_row
InsertFeedbackRow ==
    /\ ipc = "local"
    /\ tried' = [tried EXCEPT !.local = @ + 1]
    /\ \E ok \in BOOLEAN :
          /\ local_rows' = IF ok THEN InsertRow(local_rows, irec[1])
                           ELSE local_rows
          /\ local_ok' = IF ok THEN local_ok \cup {Len(inserted)}
                         ELSE local_ok
          /\ ipc' = AfterLocalInsert(ok)
    /\ UNCHANGED << notStore, now, neon_url, neon_rows, irec, inserted,
                    neon_ok, fpc, fres, fneon, flocal, fexpect, fquiet >>

\* neon_insert_feedback_row: nothing without NEON_DATABASE_URL
NeonInsertFeedbackRow ==
    /\ ipc = "neon"
    /\ IF neon_url
       THEN /\ tried' = [tried EXCEPT !.neon = @ + 1]
            /\ \E ok \in BOOLEAN :
                  /\ neon_rows' = IF ok THEN InsertRow(neon_rows, irec[1])
                                  ELSE neon_rows
                  /\ neon_ok' = IF ok THEN neon_ok \cup {Len(inserted)}
                                ELSE neon_ok
       ELSE UNCHANGED << tried, neon_rows, neon_ok >>
    /\ ipc' = "idle"
    /\ UNCHANGED << notStore, now, neon_url, local_rows, irec, inserted,
                    local_ok, fpc, fres, fneon, flocal, fexpect, fquiet >>

NewestOf(S) == IF S = {} THEN 0 ELSE MaxOf(S)

ServeAnyNeonAnswer(data) == TRUE

\* feedback_latest: if data: return {"success": True, "data": data}
ServeNeonAnswer(data) == data # NoData

\* feedback_latest up to its return or its fallback: with NEON_DATABASE_URL
\* set, data = neon_fetch_latest(), which gives None when the read raises or
\* the table is empty
FeedbackLatestNeon ==
    /\ fpc = "idle"
    /\ fquiet' = (ipc = "idle")
    /\ flocal' = FALSE
    /\ IF neon_url
       THEN \E reached \in BOOLEAN :
               LET data == IF reached THEN LatestRow(neon_rows) ELSE NoData
               IN  /\ fneon' = IF ~reached THEN "failed"
                               ELSE IF data = NoData THEN "empty" ELSE "row"
                   /\ IF ServeNeonAnswer(data)
                      THEN /\ fres' = Some([success |-> TRUE, data |-> data])
                           /\ fexpect' = NewestOf(neon_ok)
                           /\ fpc' = "idle"
                      ELSE /\ fres' = NoData
                           /\ fexpect' = 0
                           /\ fpc' = "fallback"
       ELSE /\ fneon' = "skipped"
            /\ fres' = NoData
            /\ fexpect' = 0
            /\ fpc' = "fallback"
    /\ UNCHANGED << notStore, now, neon_url, local_rows, neon_rows, ipc, irec,
                    tried, inserted, local_ok, neon_ok >>

\* feedback_latest, "Fallback to SQLite": the latest local row, None when
\* the table is empty, success False when the read raises
FeedbackLatestLocal ==
    /\ fpc = "fallback"
    /\ flocal' = TRUE
    /\ \E reached \in BOOLEAN :
          IF reached
          THEN /\ fres' = Some([success |-> TRUE,
                                data |-> LatestRow(local_rows)])
               /\ fexpect' = NewestOf(local_ok)
          ELSE /\ fres' = Some([success |-> FALSE, data |-> NoData])
               /\ fexpect' = 0
    /\ fquiet' = (fquiet /\ ipc = "idle")
    /\ fpc' = "idle"
    /\ UNCHANGED << notStore, now, neon_url, local_rows, neon_rows, ipc, irec,
                    tried, inserted, local_ok, neon_ok, fneon >>

\* time passes between the records
TickStore ==
    /\ now <= MaxClock
    /\ now' = now + 1
    /\ UNCHANGED << notStore, storeVars >>

NextStore ==
    \/ BeginInserts
    \/ InsertFeedbackRow
    \/ NeonInsertFeedbackRow
    \/ FeedbackLatestNeon
    \/ FeedbackLatestLocal
    \/ TickStore

(***************************************************************************)
(* determine_image_productivity.  A text is a sequence of one-character    *)
(* strings, so that str.lower() and the substring test "x in y" are        *)
(* computed on the characters.                                             *)
(***************************************************************************)
UpperCase == << "A", "B", "C", "D", "E", "F", "G", "H", "I", "J", "K", "L", "M",
                "N", "O", "P", "Q", "R", "S", "T", "U", "V", "W", "X", "Y", "Z" >>

LowerCase == << "a", "b", "c", "d", "e", "f", "g", "h", "i", "j", "k", "l", "m",
                "n", "o", "p", "q", "r", "s", "t", "u", "v", "w", "x", "y", "z" >>

\* str.lower(), one character
LowerChar(ch) ==
    IF \E i \in 1..Len(UpperCase) : UpperCase[i] = ch
    THEN LowerCase[CHOOSE i \in 1..Len(UpperCase) : UpperCase[i] = ch]
    ELSE ch

\* analysis.lower()
Lower(text) == [i \in 1..Len(text) |-> LowerChar(text[i])]

\* pat in text
Contains(text, pat) ==
    \E i \in 1..(Len(text) - Len(pat) + 1) :
        SubSeq(text, i, i + Len(pat) - 1) = pat

TextEmpty == << "e", "m", "p", "t", "y" >>

TextProductive == << "p", "r", "o", "d", "u", "c", "t", "i", "v", "e" >>

TextWorking == << "w", "o", "r", "k", "i", "n", "g" >>

affirmations == << "EXCELLENT! You are being incredibly productive right now!",
                   "OUTSTANDING! Keep up this amazing work!",
                   "FANTASTIC! You are on fire with productivity!",
                   "INCREDIBLE! This is exactly what I want to see!",
                   "PHENOMENAL! You are a productivity machine!" >>

barbs == << "WAKE UP! You need to get back to work immediately!",
            "STOP WASTING TIME! This is unacceptable!",
            "FOCUS! You are being completely unproductive!",
            "SNAP OUT OF IT! Get back to being productive!",
            "THIS IS NOT OKAY! You need to lock in right now!",
            "WAKE UP CALL! Stop slacking and get to work!",
            "EMERGENCY! Your productivity levels are critically low!",
            "ALERT! You are wasting precious time!",
            "WARNING! This behavior is completely unacceptable!",
            "CRISIS! You need to get productive immediately!" >>

NoPersonMessage == "No person detected in the image"

\* random.choice(list), r being the number the random generator gives
RandomChoice(list, r) == list[(r % Len(list)) + 1]

\* numbers of the random generator that reach every element of both lists
RandomValues == 0..(Len(barbs) - 1)

\* the same function with the test of src/groq/webcam.py ("working")
DetermineByWorking(analysis, r) ==
    IF Contains(Lower(analysis), TextEmpty)
    THEN NoPersonMessage
    ELSE IF Contains(Lower(analysis), TextWorking)
         THEN RandomChoice(affirmations, r)
         ELSE RandomChoice(barbs, r)

\* determine_image_productivity(analysis)
determine_image_productivity(analysis, r) ==
    IF Contains(Lower(analysis), TextEmpty)
    THEN NoPersonMessage
    ELSE IF Contains(Lower(analysis), TextProductive)
         THEN RandomChoice(affirmations, r)
         ELSE RandomChoice(barbs, r)

\* pieces the analysis texts of the model are put together from
Words == { << "e", "m", "p", "t", "y" >>,
           << "E", "m", "P", "T", "Y" >>,
           << "p", "r", "o", "d", "u", "c", "t", "i", "v", "e" >>,
           << "U", "n" >>,
           << "P", "R", "O", "D", "U", "C" >>,
           << "t", "i", "v", "e", "." >>,
           << "w", "o", "r", "k", "i", "n", "g", " " >> }

RECURSIVE TextsOf(_)
\* the texts made of at most n pieces
TextsOf(n) ==
    IF n = 0 THEN { << >> }
    ELSE LET shorter == TextsOf(n - 1)
         IN  shorter \cup { t \o w : t \in shorter, w \in Words }

Texts == TextsOf(MaxWords)

InitVerdict(texts) ==
    /\ d_analysis \in texts
    /\ d_feedback = NoText
    /\ d_webcam = NoText
    /\ d_analyzer = NoText
    /\ d_integrated = NoText

\* feedback = determine_image_productivity(analysis)
DetermineImageProductivity ==
    /\ d_feedback = NoText
    /\ \E r \in RandomValues :
          d_feedback' = determine_image_productivity(d_analysis, r)
    /\ UNCHANGED << notVerdict, d_analysis, otherVerdicts >>

NextVerdict == DetermineImageProductivity

\* the lists and the no-person text the other three files use
short_affirmations == << "Keep up the good work!", "You're doing great!",
                         "You're on the right track!" >>

short_barbs == << "Get back to work!", "Stop slacking off!", "Lock in!",
                  "What are you doing?" >>

NoPersonInImage == "No person in the image"

\* determine_image_productivity of src/groq/webcam.py
webcam_determine_image_productivity(analysis, r) ==
    IF Contains(Lower(analysis), TextEmpty)
    THEN NoPersonInImage
    ELSE IF Contains(Lower(analysis), TextWorking)
         THEN RandomChoice(short_affirmations, r)
         ELSE RandomChoice(short_barbs, r)

\* determine_image_productivity of groq_camera_analyzer.py
analyzer_determine_image_productivity(analysis, r) ==
    IF Contains(Lower(analysis), TextEmpty)
    THEN NoPersonInImage
    ELSE IF Contains(Lower(analysis), TextProductive)
         THEN RandomChoice(short_affirmations, r)
         ELSE RandomChoice(short_barbs, r)

\* determine_image_productivity of groq_integrated_main.py
integrated_determine_image_productivity(analysis, r) ==
    IF Contains(Lower(analysis), TextEmpty)
    THEN NoPersonInImage
    ELSE IF Contains(Lower(analysis), TextProductive)
         THEN RandomChoice(short_affirmations, r)
         ELSE RandomChoice(short_barbs, r)

\* numbers of the random generator that reach every element of the short lists
ShortRandomValues == 0..(Len(short_barbs) - 1)

WebcamDetermine ==
    /\ d_webcam = NoText
    /\ \E r \in ShortRandomValues :
          d_webcam' = webcam_determine_image_productivity(d_analysis, r)
    /\ UNCHANGED << notVerdict, d_analysis, d_feedback, d_analyzer,
                    d_integrated >>

AnalyzerDetermine ==
    /\ d_analyzer = NoText
    /\ \E r \in ShortRandomValues :
          d_analyzer' = analyzer_determine_image_productivity(d_analysis, r)
    /\ UNCHANGED << notVerdict, d_analysis, d_feedback, d_webcam,
                    d_integrated >>

IntegratedDetermine ==
    /\ d_integrated = NoText
    /\ \E r \in ShortRandomValues :
          d_integrated' = integrated_determine_image_productivity(d_analysis, r)
    /\ UNCHANGED << notVerdict, d_analysis, d_feedback, d_webcam,
                    d_analyzer >>

\* the four implementations called with the same text
NextVerdicts ==
    \/ DetermineImageProductivity
    \/ WebcamDetermine
    \/ AnalyzerDetermine
    \/ IntegratedDetermine

(***************************************************************************)
(* The analysis thread: analyze() of _analyze_frame_async, one thread      *)
(* followed at a time, each step one call that can raise.                  *)
(***************************************************************************)
ErrorPrefix == << "E", "r", "r", "o", "r", " ", "a", "n", "a", "l", "y", "z", "i",
                  "n", "g", " ", "i", "m", "a", "g", "e", ":", " " >>

\* str(e) of the exceptions the classifier call raises
ClassifierErrors == { << "t", "i", "m", "e", "d", " ", "o", "u", "t" >> }

\* message.content of the answers the classifier gives: a text, or None
ClassifierContents == { Some(TextEmpty), Some(TextProductive), NoData }

\* how one call of client.chat.completions.create ends
ClassifierOutcomes ==
    { [ok |-> TRUE, content |-> c, error |-> << >>] : c \in ClassifierContents }
    \cup { [ok |-> FALSE, content |-> NoData, error |-> e] : e \in ClassifierErrors }

\* analyze_image_with_groq: the content, or on any exception the text
\* f"Error analyzing image: {e}"
analyze_image_with_groq(outcome) ==
    IF outcome.ok THEN outcome.content ELSE Some(ErrorPrefix \o outcome.error)

InitAna(sinks) ==
    /\ sink_url \in sinks
    /\ feedback_file = NoText
    /\ sink_posts = << >>
    /\ nsamples = 0
    /\ tpc = "none"
    /\ tframe = 0
    /\ tanalysis = << >>
    /\ tfeedback = NoText
    /\ tstamp = 0
    /\ tcall = "none"
    /\ tfailed = {}
    /\ tcontent = << >>
    /\ tsteps = << >>
    /\ tcalls = 0
    /\ tseen = Unset

\* analysis_thread.start() for the next sampled frame
AnalyzeStart ==
    /\ tpc \in {"none", "ended"}
    /\ nsamples < MaxSamples
    /\ nsamples' = nsamples + 1
    /\ tframe' = SampleFrame(nsamples + 1)
    /\ tpc' = "save"
    /\ tanalysis' = << >>
    /\ tfeedback' = NoText
    /\ tstamp' = 0
    /\ tcall' = "none"
    /\ tfailed' = {}
    /\ tcontent' = << >>
    /\ tsteps' = << >>
    /\ tcalls' = 0
    /\ tseen' = Unset
    /\ UNCHANGED << notAna, latest_feedback, local_rows, neon_rows,
                    message_queue, sink_url, feedback_file, sink_posts >>

\* image.save(temp_path, ...): an exception ends analyze() in its outer
\* except
AnalyzeSaveFrame ==
    /\ tpc = "save"
    /\ \E ok \in BOOLEAN :
          /\ tpc' = IF ok THEN "classify" ELSE "ended"
          /\ tfailed' = IF ok THEN tfailed ELSE tfailed \cup {"save"}
    /\ UNCHANGED << taskNotes, tseen >>
    /\ UNCHANGED << notAna, latest_feedback, local_rows, neon_rows,
                    message_queue, sink_url, feedback_file, sink_posts,
                    nsamples, tframe, tanalysis, tfeedback, tstamp, tcall >>

\* analysis = analyze_image_with_groq(str(temp_path), self.groq_client)
AnalyzeClassify ==
    /\ tpc = "classify"
    /\ \E outcome \in ClassifierOutcomes :
          /\ tanalysis' = << analyze_image_with_groq(outcome) >>
          /\ tcall' = IF outcome.ok THEN "ok" ELSE "failed"
          /\ tcontent' = IF outcome.ok THEN << outcome.content >> ELSE << >>
    /\ UNCHANGED << tsteps, tcalls, tseen >>
    /\ tpc' = "verdict"
    /\ UNCHANGED << notAna, latest_feedback, local_rows, neon_rows,
                    message_queue, sink_url, feedback_file, sink_posts,
                    nsamples, tframe, tfeedback, tstamp, tfailed >>

AfterVerdictSkippingEmpty(feedback) ==
    IF feedback = NoPersonMessage THEN "ended" ELSE "update"

\* analyze() treats every verdict alike: on to the update of latest_feedback
AfterVerdict(feedback) == "update"

\* feedback = determine_image_productivity(analysis): None has no lower(),
\* the AttributeError ends analyze() in its outer except
AnalyzeVerdict ==
    /\ tpc = "verdict"
    /\ IF tanalysis[1] = NoData
       THEN /\ tpc' = "ended"
            /\ tfailed' = tfailed \cup {"verdict"}
            /\ UNCHANGED tfeedback
       ELSE /\ \E r \in 0..(MaxDraws - 1) :
                  tfeedback' = determine_image_productivity(tanalysis[1][1], r)
            /\ tpc' = AfterVerdict(tfeedback')
            /\ UNCHANGED tfailed
    /\ UNCHANGED << taskNotes, tseen >>
    /\ UNCHANGED << notAna, latest_feedback, local_rows, neon_rows,
                    message_queue, sink_url, feedback_file, sink_posts,
                    nsamples, tframe, tanalysis, tstamp, tcall >>

\* current_timestamp = int(time.time() * 1000); latest_feedback.update({...})
AnalyzeUpdateLatest ==
    /\ tpc = "update"
    /\ tstamp' = now
    /\ latest_feedback' = [feedback |-> tfeedback, analysis |-> tanalysis[1][1],
                           frame_number |-> tframe, timestamp |-> now,
                           is_new |-> TRUE]
    /\ tpc' = "file"
    /\ tsteps' = Append(tsteps, "update")
    /\ UNCHANGED << tcontent, tcalls, tseen >>
    /\ UNCHANGED << notAna, local_rows, neon_rows, message_queue, sink_url,
                    feedback_file, sink_posts, nsamples, tframe, tanalysis,
                    tfeedback, tcall, tfailed >>

\* the write of the feedback file is in a try of its own
AfterFileWrite(ok) == "sink"

\* FEEDBACK_FILE_PATH.write_text(feedback, encoding="utf-8")
AnalyzeWriteFile ==
    /\ tpc = "file"
    /\ \E ok \in BOOLEAN :
          /\ feedback_file' = IF ok THEN tfeedback ELSE feedback_file
          /\ tfailed' = IF ok THEN tfailed ELSE tfailed \cup {"file"}
          /\ tpc' = AfterFileWrite(ok)
    /\ tsteps' = Append(tsteps, "file")
    /\ UNCHANGED << tcontent, tcalls, tseen >>
    /\ UNCHANGED << notAna, latest_feedback, local_rows, neon_rows,
                    message_queue, sink_url, sink_posts, nsamples, tframe,
                    tanalysis, tfeedback, tstamp, tcall >>

SinkCallsRetrying(url, ok) == IF url THEN (IF ok THEN 1 ELSE 2) ELSE 0

\* the calls of requests.post one post_feedback_to_sink makes: none after
\* "if not FEEDBACK_SINK_URL: return", else the one in the try, failed or not
SinkCalls(url, ok) == IF url THEN 1 ELSE 0

\* post_feedback_to_sink(feedback, current_timestamp): nothing without
\* FEEDBACK_SINK_URL; a failed post is caught inside
AnalyzePostSink ==
    /\ tpc = "sink"
    /\ IF sink_url
       THEN \E ok \in BOOLEAN :
               /\ sink_posts' = IF ok
                                THEN Append(sink_posts,
                                            [feedback |-> tfeedback,
                                             timestamp |-> tstamp])
                                ELSE sink_posts
               /\ tfailed' = IF ok THEN tfailed ELSE tfailed \cup {"sink"}
               /\ tcalls' = tcalls + SinkCalls(sink_url, ok)
       ELSE /\ tcalls' = tcalls + SinkCalls(sink_url, TRUE)
            /\ UNCHANGED << sink_posts, tfailed >>
    /\ tpc' = "local"
    /\ tsteps' = Append(tsteps, "sink")
    /\ UNCHANGED << tcontent, tseen >>
    /\ UNCHANGED << notAna, latest_feedback, local_rows, neon_rows,
                    message_queue, sink_url, feedback_file, nsamples, tframe,
                    tanalysis, tfeedback, tstamp, tcall >>

AnalyzedRecordRestamped ==
    [timestamp |-> tstamp + 1, frame_number |-> tframe,
     analysis |-> tanalysis[1][1], feedback |-> tfeedback]

\* the record analyze() hands to the two inserts
AnalyzedRecord ==
    [timestamp |-> tstamp, frame_number |-> tframe,
     analysis |-> tanalysis[1][1], feedback |-> tfeedback]

\* insert_feedback_row(feedback, analysis, frame_number, current_timestamp)
AnalyzeInsertLocal ==
    /\ tpc = "local"
    /\ \E ok \in BOOLEAN :
          /\ local_rows' = IF ok THEN InsertRow(local_rows, AnalyzedRecord)
                           ELSE local_rows
          /\ tfailed' = IF ok THEN tfailed ELSE tfailed \cup {"local"}
          /\ tpc' = AfterLocalInsert(ok)
    /\ tsteps' = Append(tsteps, "local")
    /\ UNCHANGED << tcontent, tcalls, tseen >>
    /\ UNCHANGED << notAna, latest_feedback, neon_rows, message_queue,
                    sink_url, feedback_file, sink_posts, nsamples, tframe,
                    tanalysis, tfeedback, tstamp, tcall >>

AfterNeonInsertAborting(ok) == IF ok THEN "enqueue" ELSE "ended"

\* neon_insert_feedback_row returns normally whether or not the insert failed
AfterNeonInsert(ok) == "enqueue"

\* neon_insert_feedback_row(feedback, analysis, frame_number,
\* current_timestamp): nothing without NEON_DATABASE_URL
AnalyzeInsertNeon ==
    /\ tpc = "neon"
    /\ IF neon_url
       THEN \E ok \in BOOLEAN :
               /\ neon_rows' = IF ok THEN InsertRow(neon_rows, AnalyzedRecord)
                               ELSE neon_rows
               /\ tfailed' = IF ok THEN tfailed ELSE tfailed \cup {"neon"}
               /\ tpc' = AfterNeonInsert(ok)
       ELSE /\ tpc' = AfterNeonInsert(TRUE)
            /\ UNCHANGED << neon_rows, tfailed >>
    /\ tsteps' = Append(tsteps, "neon")
    /\ UNCHANGED << tcontent, tcalls, tseen >>
    /\ UNCHANGED << notAna, latest_feedback, local_rows, message_queue,
                    sink_url, feedback_file, sink_posts, nsamples, tframe,
                    tanalysis, tfeedback, tstamp, tcall >>

\* feedback_message = {"type": "feedback", "data": {...}, "timestamp": ...}
FeedbackMessage ==
    [type |-> "feedback",
     data |-> [analysis |-> tanalysis[1][1], feedback |-> tfeedback,
               frameNumber |-> tframe],
     timestamp |-> tstamp]

\* try: print(... len(manager.active_connections) ...);
\*      manager.queue_message(json.dumps(feedback_message))
\* except: print
AnalyzeQueueMessage ==
    /\ tpc = "enqueue"
    /\ \E ok \in BOOLEAN :
          /\ message_queue' = IF ok THEN Append(message_queue, FeedbackMessage)
                              ELSE message_queue
          /\ tfailed' = IF ok THEN tfailed ELSE tfailed \cup {"enqueue"}
    /\ tpc' = "ended"
    /\ tsteps' = Append(tsteps, "enqueue")
    /\ UNCHANGED << tcontent, tcalls >>
    /\ tseen' = Len(active_connections)
    /\ UNCHANGED << notAna, latest_feedback, local_rows, neon_rows, sink_url,
                    feedback_file, sink_posts, nsamples, tframe, tanalysis,
                    tfeedback, tstamp, tcall >>

\* one step of a started analysis thread
AnalysisStep ==
    \/ AnalyzeSaveFrame
    \/ AnalyzeClassify
    \/ AnalyzeVerdict
    \/ AnalyzeUpdateLatest
    \/ AnalyzeWriteFile
    \/ AnalyzePostSink
    \/ AnalyzeInsertLocal
    \/ AnalyzeInsertNeon
    \/ AnalyzeQueueMessage

\* the first analysis thread is started
FirstAnalysis ==
    /\ nsamples = 0
    /\ AnalyzeStart

\* one analysis thread with stop() called at any moment, any number of times
NextStopAnalysis ==
    \/ FirstAnalysis
    \/ AnalyzeSaveFrame
    \/ AnalyzeClassify
    \/ AnalyzeVerdict
    \/ AnalyzeUpdateLatest
    \/ AnalyzeWriteFile
    \/ AnalyzePostSink
    \/ AnalyzeInsertLocal
    \/ AnalyzeInsertNeon
    \/ AnalyzeQueueMessage
    \/ StopCall

NextAnalysis ==
    \/ AnalyzeStart
    \/ AnalyzeSaveFrame
    \/ AnalyzeClassify
    \/ AnalyzeVerdict
    \/ AnalyzeUpdateLatest
    \/ AnalyzeWriteFile
    \/ AnalyzePostSink
    \/ AnalyzeInsertLocal
    \/ AnalyzeInsertNeon
    \/ AnalyzeQueueMessage

\* the thread _analyze_frame_async started for the first frame dispatched
DispatchedStart ==
    /\ nsamples < Len(dispatched)
    /\ FirstAnalysis

\* the capture thread and the analysis thread it starts
NextPipeline ==
    \/ LoopTop
    \/ CaptureArray
    \/ EncodeJpeg
    \/ CaptureAcquire
    \/ StoreFrame
    \/ CountFrame
    \/ CaptureRelease
    \/ CheckAnalyze
    \/ Backoff
    \/ SleepFrame
    \/ DispatchedStart
    \/ AnalyzeSaveFrame
    \/ AnalyzeClassify
    \/ AnalyzeVerdict
    \/ AnalyzeUpdateLatest
    \/ AnalyzeWriteFile
    \/ AnalyzePostSink
    \/ AnalyzeInsertLocal
    \/ AnalyzeInsertNeon
    \/ AnalyzeQueueMessage

\* the connections whose handlers are followed next to an analysis thread
Listeners == { c \in Conns : c <= 2 }

\* one analysis thread next to the /ws/camera handlers: the thread puts its
\* message on manager.message_queue, the handlers take it from there
NextBridge ==
    \/ FirstAnalysis
    \/ AnalyzeSaveFrame
    \/ AnalyzeClassify
    \/ AnalyzeVerdict
    \/ AnalyzeUpdateLatest
    \/ AnalyzeWriteFile
    \/ AnalyzePostSink
    \/ AnalyzeInsertLocal
    \/ AnalyzeInsertNeon
    \/ AnalyzeQueueMessage
    \/ \E c \in Listeners : Connect(c)
    \/ \E c \in Listeners : FrameSent(c)
    \/ \E c \in Listeners : BroadcastSent(c)
    \/ \E c \in Listeners : Wake(c)
    \/ \E c \in Listeners : ClientClose(c)

(***************************************************************************)
(* GroqCameraManager of groq_integrated_main.py: __init__ starts the       *)
(* capture thread and only then sets groq_client, frame_count and          *)
(* analysis_interval, so the thread runs beside the rest of __init__.      *)
(***************************************************************************)
\* the state when self._thread.start() has returned
InitGroq ==
    /\ g_init = "client"
    /\ g_frame_count = Unset
    /\ g_groq_client = "unset"
    /\ g_interval = Unset
    /\ g_lock = "free"
    /\ g_cpc = "capture"
    /\ g_last_jpeg = None
    /\ g_read = 0
    /\ g_stored = 0

\* self.groq_client = None; if self.api_key: self.groq_client = Groq(...)
GroqInitClient ==
    /\ g_init = "client"
    /\ g_groq_client' \in {"none", "client"}
    /\ g_init' = "count"
    /\ UNCHANGED << notGroq, g_frame_count, g_interval, g_lock, g_cpc,
                    g_last_jpeg, g_read, g_stored >>

\* self.frame_count = 0
GroqInitCount ==
    /\ g_init = "count"
    /\ g_frame_count' = 0
    /\ g_init' = "interval"
    /\ UNCHANGED << notGroq, g_groq_client, g_interval, g_lock, g_cpc,
                    g_last_jpeg, g_read, g_stored >>

\* self.analysis_interval = 10 (the model's analysis_interval), and the rest
\* of __init__
GroqInitInterval ==
    /\ g_init = "interval"
    /\ g_interval' = analysis_interval
    /\ g_init' = "done"
    /\ UNCHANGED << notGroq, g_frame_count, g_groq_client, g_lock, g_cpc,
                    g_last_jpeg, g_read, g_stored >>

\* capture_array, Image.fromarray, im.save: a frame, or an exception
GroqCapture ==
    /\ g_cpc = "capture"
    /\ \/ g_stored < MaxCaptures /\ g_cpc' = "acquire"
       \/ g_cpc' = "backoff"
    /\ UNCHANGED << notGroq, g_init, g_frame_count, g_groq_client, g_interval,
                    g_lock, g_last_jpeg, g_read, g_stored >>

\* with self._lock: self._last_jpeg = jpeg_bytes
GroqStore ==
    /\ g_cpc = "acquire"
    /\ g_lock = "free"
    /\ g_lock' = "capture"
    /\ g_last_jpeg' = g_stored + 1
    /\ g_stored' = g_stored + 1
    /\ g_cpc' = "count"
    /\ UNCHANGED << notGroq, g_init, g_frame_count, g_groq_client, g_interval,
                    g_read >>

\* self.frame_count += 1, first half: the attribute is loaded; without it
\* the AttributeError leaves the with block for the except clause
GroqLoadCount ==
    /\ g_cpc = "count"
    /\ IF g_frame_count = Unset
       THEN /\ g_lock' = "free"
            /\ g_cpc' = "backoff"
            /\ UNCHANGED g_read
       ELSE /\ g_read' = g_frame_count
            /\ g_cpc' = "add"
            /\ UNCHANGED g_lock
    /\ UNCHANGED << notGroq, g_init, g_frame_count, g_groq_client, g_interval,
                    g_last_jpeg, g_stored >>

\* self.frame_count += 1, second half: the sum is stored; the with block ends
GroqAddCount ==
    /\ g_cpc = "add"
    /\ g_frame_count' = g_read + 1
    /\ g_lock' = "free"
    /\ g_cpc' = "check"
    /\ UNCHANGED << notGroq, g_init, g_groq_client, g_interval, g_last_jpeg,
                    g_read, g_stored >>

\* if (self.groq_client and self.frame_count % self.analysis_interval == 0):
\* an attribute that is not there yet raises AttributeError
GroqCheckAnalyze ==
    /\ g_cpc = "check"
    /\ g_cpc' = IF \/ g_groq_client = "unset"
                   \/ g_groq_client = "client" /\ g_interval = Unset
                THEN "backoff" ELSE "sleep"
    /\ UNCHANGED << notGroq, g_init, g_frame_count, g_groq_client, g_interval,
                    g_lock, g_last_jpeg, g_read, g_stored >>

\* except Exception: time.sleep(0.1)
GroqBackoff ==
    /\ g_cpc = "backoff"
    /\ g_cpc' = "sleep"
    /\ UNCHANGED << notGroq, g_init, g_frame_count, g_groq_client, g_interval,
                    g_lock, g_last_jpeg, g_read, g_stored >>

\* time.sleep(frame_interval); while self._running:
GroqSleep ==
    /\ g_cpc = "sleep"
    /\ g_cpc' = "capture"
    /\ UNCHANGED << notGroq, g_init, g_frame_count, g_groq_client, g_interval,
                    g_lock, g_last_jpeg, g_read, g_stored >>

NextGroq ==
    \/ GroqInitClient
    \/ GroqInitCount
    \/ GroqInitInterval
    \/ GroqCapture
    \/ GroqStore
    \/ GroqLoadCount
    \/ GroqAddCount
    \/ GroqCheckAnalyze
    \/ GroqBackoff
    \/ GroqSleep

(***************************************************************************)
(* Analysis threads running at the same time.  _analyze_frame_async starts *)
(* one thread per sampled frame and waits for none, so the thread of a     *)
(* later sample can overtake the thread of an earlier one at any step.     *)
(* The steps before current_timestamp is taken touch only the thread's own *)
(* locals and its own temporary file and are one action.                   *)
(***************************************************************************)
Tasks == 1..MaxTasks

InitTasks ==
    /\ wpc = [k \in Tasks |-> "none"]
    /\ wanswer = [k \in Tasks |-> << >>]
    /\ wstamp = [k \in Tasks |-> 0]

\* analysis_thread.start() for the k-th sampled frame: the capture loop
\* starts the threads in the order of the samples
TaskStart(k) ==
    /\ wpc[k] = "none"
    /\ k > 1 => wpc[k - 1] # "none"
    /\ wpc' = [wpc EXCEPT ![k] = "classify"]
    /\ UNCHANGED << notTasks, latest_feedback, jheld, feedback_file,
                    sink_posts, local_rows, neon_rows, message_queue, wanswer,
                    wstamp >>

\* image.save, analyze_image_with_groq and determine_image_productivity: an
\* exception of any of them ends analyze() in its outer except, otherwise
\* the thread holds analysis and feedback
TaskClassify(k) ==
    /\ wpc[k] = "classify"
    /\ \/ /\ wpc' = [wpc EXCEPT ![k] = "ended"]
          /\ UNCHANGED wanswer
       \/ \E c \in Classified :
             /\ wanswer' = [wanswer EXCEPT ![k] = c]
             /\ wpc' = [wpc EXCEPT ![k] = "stamp"]
    /\ UNCHANGED << notTasks, latest_feedback, jheld, feedback_file,
                    sink_posts, local_rows, neon_rows, message_queue, wstamp >>

\* current_timestamp = int(time.time() * 1000)
TaskStamp(k) ==
    /\ wpc[k] = "stamp"
    /\ wstamp' = [wstamp EXCEPT ![k] = now]
    /\ wpc' = [wpc EXCEPT ![k] = "update"]
    /\ UNCHANGED << notTasks, latest_feedback, jheld, feedback_file,
                    sink_posts, local_rows, neon_rows, message_queue, wanswer >>

\* latest_feedback.update({...})
TaskUpdateLatest(k) ==
    /\ wpc[k] = "update"
    /\ latest_feedback' = [feedback |-> wanswer[k][2],
                           analysis |-> wanswer[k][1],
                           frame_number |-> SampleFrame(k),
                           timestamp |-> wstamp[k], is_new |-> TRUE]
    /\ jheld' = Held(latest_feedback')
    /\ wpc' = [wpc EXCEPT ![k] = "file"]
    /\ UNCHANGED << notTasks, feedback_file, sink_posts, local_rows,
                    neon_rows, message_queue, wanswer, wstamp >>

\* FEEDBACK_FILE_PATH.write_text(feedback, encoding="utf-8") in its own try
TaskWriteFile(k) ==
    /\ wpc[k] = "file"
    /\ \E ok \in BOOLEAN :
          feedback_file' = IF ok THEN wanswer[k][2] ELSE feedback_file
    /\ wpc' = [wpc EXCEPT ![k] = "sink"]
    /\ UNCHANGED << notTasks, latest_feedback, jheld, sink_posts, local_rows,
                    neon_rows, message_queue, wanswer, wstamp >>

\* post_feedback_to_sink(feedback, current_timestamp)
TaskPostSink(k) ==
    /\ wpc[k] = "sink"
    /\ \E ok \in BOOLEAN :
          sink_posts' = IF sink_url /\ ok
                        THEN Append(sink_posts, [feedback |-> wanswer[k][2],
                                                 timestamp |-> wstamp[k]])
                        ELSE sink_posts
    /\ wpc' = [wpc EXCEPT ![k] = "local"]
    /\ UNCHANGED << notTasks, latest_feedback, jheld, feedback_file,
                    local_rows, neon_rows, message_queue, wanswer, wstamp >>

\* the record the thread hands to the two inserts
TaskRecord(k) ==
    [timestamp |-> wstamp[k], frame_number |-> SampleFrame(k),
     analysis |-> wanswer[k][1], feedback |-> wanswer[k][2]]

\* insert_feedback_row(feedback, analysis, frame_number, current_timestamp)
TaskInsertLocal(k) ==
    /\ wpc[k] = "local"
    /\ \E ok \in BOOLEAN :
          local_rows' = IF ok THEN InsertRow(local_rows, TaskRecord(k))
                        ELSE local_rows
    /\ wpc' = [wpc EXCEPT ![k] = "neon"]
    /\ UNCHANGED << notTasks, latest_feedback, jheld, feedback_file,
                    sink_posts, neon_rows, message_queue, wanswer, wstamp >>

\* neon_insert_feedback_row(feedback, analysis, frame_number,
\* current_timestamp)
TaskInsertNeon(k) ==
    /\ wpc[k] = "neon"
    /\ \E ok \in BOOLEAN :
          neon_rows' = IF neon_url /\ ok
                       THEN InsertRow(neon_rows, TaskRecord(k))
                       ELSE neon_rows
    /\ wpc' = [wpc EXCEPT ![k] = "enqueue"]
    /\ UNCHANGED << notTasks, latest_feedback, jheld, feedback_file,
                    sink_posts, local_rows, message_queue, wanswer, wstamp >>

\* manager.queue_message(json.dumps(feedback_message)) in its own try
TaskQueueMessage(k) ==
    /\ wpc[k] = "enqueue"
    /\ \E ok \in BOOLEAN :
          message_queue' =
              IF ok
              THEN Append(message_queue,
                          [type |-> "feedback",
                           data |-> [analysis |-> wanswer[k][1],
                                     feedback |-> wanswer[k][2],
                                     frameNumber |-> SampleFrame(k)],
                           timestamp |-> wstamp[k]])
              ELSE message_queue
    /\ wpc' = [wpc EXCEPT ![k] = "ended"]
    /\ UNCHANGED << notTasks, latest_feedback, jheld, feedback_file,
                    sink_posts, local_rows, neon_rows, wanswer, wstamp >>

NextTasks ==
    \/ Tick
    \/ \E k \in Tasks : TaskStart(k)
    \/ \E k \in Tasks : TaskClassify(k)
    \/ \E k \in Tasks : TaskStamp(k)
    \/ \E k \in Tasks : TaskUpdateLatest(k)
    \/ \E k \in Tasks : TaskWriteFile(k)
    \/ \E k \in Tasks : TaskPostSink(k)
    \/ \E k \in Tasks : TaskInsertLocal(k)
    \/ \E k \in Tasks : TaskInsertNeon(k)
    \/ \E k \in Tasks : TaskQueueMessage(k)

(***************************************************************************)
(* Specifications                                                          *)
(***************************************************************************)
Init ==
    /\ InitCam({TRUE})
    /\ InitPoll
    /\ InitConn
    /\ InitStore({TRUE})
    /\ InitVerdict({ << >> })
    /\ InitAna({TRUE})
    /\ InitGroq
    /\ InitTasks

\* the capture thread with and without a classifier configured
InitCapture ==
    /\ InitCam(BOOLEAN)
    /\ InitPoll
    /\ InitConn
    /\ InitStore({TRUE})
    /\ InitVerdict({ << >> })
    /\ InitAna({TRUE})
    /\ InitGroq
    /\ InitTasks

\* the stores with and without NEON_DATABASE_URL
InitStores ==
    /\ InitCam({TRUE})
    /\ InitPoll
    /\ InitConn
    /\ InitStore(BOOLEAN)
    /\ InitVerdict({ << >> })
    /\ InitAna({TRUE})
    /\ InitGroq
    /\ InitTasks

\* determine_image_productivity called with each text of the model
InitTexts ==
    /\ InitCam({TRUE})
    /\ InitPoll
    /\ InitConn
    /\ InitStore({TRUE})
    /\ InitVerdict(Texts)
    /\ InitAna({TRUE})
    /\ InitGroq
    /\ InitTasks

\* the analysis thread with and without a sink and a remote store
InitAnalysis ==
    /\ InitCam({TRUE})
    /\ InitPoll
    /\ InitConn
    /\ InitStore(BOOLEAN)
    /\ InitVerdict({ << >> })
    /\ InitAna(BOOLEAN)
    /\ InitGroq
    /\ InitTasks

SpecCapture == InitCapture /\ [][NextCapture]_vars

SpecStop == InitCapture /\ [][NextStop]_vars

\* the capture thread and the get_jpeg callers are threads that keep running,
\* and a thread waiting for the lock gets it when it is free often enough
SpecStopLive ==
    /\ SpecStop
    /\ WF_vars(CaptureStep)
    /\ SF_vars(CaptureAcquire)
    /\ WF_vars(GetReturn(Contender))

SpecConn == Init /\ [][NextConn]_vars

SpecLate == Init /\ [][NextLate]_vars

SpecStore == InitStores /\ [][NextStore]_vars

SpecPoll == Init /\ [][NextPoll]_vars

SpecStopAnalysis == InitAnalysis /\ [][NextStopAnalysis]_vars

\* a started thread is scheduled until its function returns
SpecStopAnalysisLive == SpecStopAnalysis /\ WF_vars(AnalysisStep)

SpecGroq == Init /\ [][NextGroq]_vars

SpecBridge == Init /\ [][NextBridge]_vars

\* with and without a classifier configured
SpecPipeline == InitCapture /\ [][NextPipeline]_vars

SpecTasks == Init /\ [][NextTasks]_vars

SpecLatest == Init /\ [][NextLatest]_vars

SpecPollSeq == Init /\ [][NextPollSeq]_vars

SpecVerdict == InitTexts /\ [][NextVerdict]_vars

SpecVerdicts == InitTexts /\ [][NextVerdicts]_vars

SpecAnalysis == InitAnalysis /\ [][NextAnalysis]_vars

Next ==
    NextCapture \/ NextPoll \/ NextLatest \/ NextConn \/ NextStore
        \/ NextVerdict \/ NextAnalysis \/ NextGroq \/ NextBridge
        \/ NextTasks \/ NextLate \/ NextPipeline \/ NextVerdicts

Spec == Init /\ [][Next]_vars


(***************************************************************************)
(* C1: the frame buffer is latest-wins.  A get_jpeg that reads the buffer  *)
(* after the Nth store and before the next one returns the Nth stored      *)
(* frame (None before the first store), and it never returns a frame older *)
(* than one an earlier get_jpeg returned.                                  *)
(***************************************************************************)
GetReads(g) == gpc[g] = "locked" /\ gpc'[g] = "idle"

C1_LatestWins ==
    [][\A g \in Getters :
          GetReads(g) =>
             /\ gret'[g] = (IF stored = << >> THEN None ELSE Last(stored))
             /\ gret'[g] >= maxGot]_vars

\* a get returned the third stored frame after an earlier get returned an
\* earlier one
C1_Witness ==
    /\ Len(stored) >= 3
    /\ \E g \in Getters : gret[g] = stored[3]
    /\ \E g \in Getters : gret[g] # None /\ gret[g] < stored[3]

(***************************************************************************)
(* C2: with a classifier configured, the frames handed to the analysis     *)
(* dispatcher are exactly the frames whose counter value is a positive     *)
(* multiple of analysis_interval, each once and in order, whatever capture *)
(* failures happen in between.                                             *)
(***************************************************************************)
\* the current counter value has not been through the check yet
CheckPending == cpc \in {"release", "check"}

Multiples(n) == [k \in 1..n |-> k * analysis_interval]

C2_SamplingCadence ==
    groq_client =>
        dispatched =
            Multiples(IF CheckPending /\ frame_count % analysis_interval = 0
                      THEN (frame_count \div analysis_interval) - 1
                      ELSE frame_count \div analysis_interval)

\* two samples were dispatched although a capture failed in between
C2_Witness ==
    /\ groq_client
    /\ Len(dispatched) >= 2
    /\ devSeq > Len(stored)

(***************************************************************************)
(* C3: with poll_feedback requests served one after the other, each record *)
(* written to latest_feedback is reported new by exactly one poll: the     *)
(* poll that clears is_new is the first to do so since the record was      *)
(* written, and a poll answers has_new_feedback = false with data = None   *)
(* only when no record was written yet or the latest one was reported.     *)
(***************************************************************************)
PollClears(p) == ppc[p] = "clear" /\ ppc'[p] = "then"

PollTakesElse(p) == ppc[p] \in {"idle", "test_feedback"} /\ ppc'[p] = "else"

PollAnswersNone(p) == ppc[p] = "else" /\ ppc'[p] = "idle"

C3_PollOncePerRecord ==
    [][\A p \in Polls :
          /\ PollClears(p) => nrec >= 1 /\ consumed[nrec] = 0
          /\ PollTakesElse(p) => nrec = 0 \/ consumed[nrec] = 1
          /\ PollAnswersNone(p) =>
                pres'[p] = Some([has_new_feedback |-> FALSE,
                                 data |-> NoData])]_vars

\* the second record was reported by one poll and a later poll got "none"
C3_Witness ==
    /\ nrec = 2
    /\ consumed[2] = 1
    /\ \E p \in Polls :
          pres[p] = Some([has_new_feedback |-> FALSE, data |-> NoData])
    /\ \A p \in Polls : ppc[p] = "idle"

(***************************************************************************)
(* C4: at-most-once pull delivery under concurrency: whatever the          *)
(* interleaving of concurrent poll_feedback requests and overwrites of     *)
(* latest_feedback, no record has its is_new flag cleared (and is reported *)
(* with has_new_feedback = true) by more than one poll.                    *)
(***************************************************************************)
C4_AtMostOnceDelivery == \A r \in 1..MaxRecords : consumed[r] <= 1

(***************************************************************************)
(* C5: failure isolation within one broadcast: a connection whose          *)
(* send_text raises during broadcast(message) is off the list when the     *)
(* failure has been handled, and when the broadcast ends every connection  *)
(* that was on the list when it began and is still open and still on the   *)
(* list has received that message.                                         *)
(***************************************************************************)
BroadcastEnds(c) ==
    /\ hpc[c] = "bcast_sending"
    /\ hpc'[c] # "bcast_sending" \/ bmsg'[c] # bmsg[c]

BroadcastFails(c) == hpc[c] = "bcast_sending" /\ ~calive[btarget[c]]

C5_BroadcastIsolation ==
    [][\A c \in Conns :
          /\ BroadcastFails(c) =>
                btarget[c] \notin Range(active_connections')
          /\ BroadcastEnds(c) =>
                \A x \in bstart[c] :
                    calive[x] /\ x \in Range(active_connections')
                       => bmsg[c] \in Range(got'[x])]_vars

(***************************************************************************)
(* C6: a connection on which a send failed (the frame send of its own      *)
(* handler or a feedback send of a broadcast) is off active_connections as *)
(* soon as the failure has been handled, and no send to a connection       *)
(* succeeds after its removal.                                             *)
(***************************************************************************)
C6_FailedConnectionRemoved ==
    \A c \in Conns :
        /\ sendFailed[c] => c \notin Range(active_connections)
        /\ ~lateSend[c]

(***************************************************************************)
(* C7: membership of active_connections: no handle is on the list twice,   *)
(* a handle is taken off at most once, list.remove is never called for a   *)
(* handle that is not on the list, and the only handles that leave the     *)
(* list are handles on which a send failed.                                *)
(***************************************************************************)
C7_Membership ==
    /\ [](/\ Cardinality(Range(active_connections)) = Len(active_connections)
          /\ \A c \in Conns : removals[c] <= 1
          /\ ~removeRaised)
    /\ [][\A c \in Range(active_connections) \ Range(active_connections') :
              sendFailed'[c] /\ removals'[c] = removals[c] + 1]_vars

\* a handle taken off by a failed broadcast send whose removal was asked for
\* again (by its handler's disconnect or by an overlapping broadcast)
C7_Witness ==
    \E c \in Conns : attempts[c] >= 2 /\ removals[c] = 1

(***************************************************************************)
(* C8 as stated: a feedback_latest request that runs after N inserts, with *)
(* no insert in progress, and answers with success returns the Nth         *)
(* record, whichever store served the read and whichever writes failed.    *)
(***************************************************************************)
Answered == fpc = "idle" /\ fres # NoData

C8_LatestIsNth ==
    Answered /\ fquiet /\ fres[1].success /\ Len(inserted) >= 1
        => fres[1].data = Some(Last(inserted))

(***************************************************************************)
(* C8 amended: a feedback_latest request that answers with success returns *)
(* the most recently inserted record among those whose write to the store  *)
(* that served the read had succeeded (None if there is none): the Nth     *)
(* record exactly when the Nth record's write to that store succeeded.     *)
(***************************************************************************)
C8_LatestStoredInServingStore ==
    Answered /\ fres[1].success
        => fres[1].data = (IF fexpect = 0 THEN NoData
                           ELSE Some(inserted[fexpect]))

\* two inserts were made, the second one's write to the serving store
\* failed, and the request returned the first record
C8_Witness ==
    /\ Answered /\ fquiet /\ fres[1].success
    /\ Len(inserted) = 2
    /\ fexpect = 1
    /\ fres[1].data = Some(inserted[1])

(***************************************************************************)
(* C9: the two persistence writes of a record are independent: the local   *)
(* insert is attempted once for every record, the remote insert once if    *)
(* NEON_DATABASE_URL is set and never otherwise, whatever the outcome of   *)
(* the other write; and each store holds exactly the records whose write   *)
(* to it succeeded, whatever happened to the other store's write.          *)
(***************************************************************************)
FramesIn(rows) == { r.frame_number : r \in rows }

FramesOf(S) == { inserted[i].frame_number : i \in S }

C9_IndependentWrites ==
    /\ ipc = "idle" /\ Len(inserted) >= 1
          => /\ tried.local = 1
             /\ tried.neon = (IF neon_url THEN 1 ELSE 0)
    /\ ipc = "neon" => tried.local = 1 /\ tried.neon = 0
    /\ FramesIn(local_rows) = FramesOf(local_ok)
    /\ FramesIn(neon_rows) = FramesOf(neon_ok)
    /\ Cardinality(local_rows) = Cardinality(local_ok)
    /\ Cardinality(neon_rows) = Cardinality(neon_ok)

\* one record reached only the remote store and another only the local one
C9_Witness ==
    /\ ipc = "idle"
    /\ neon_ok \ local_ok # {}
    /\ local_ok \ neon_ok # {}

HasEmpty == Contains(Lower(d_analysis), TextEmpty)

HasProductive == Contains(Lower(d_analysis), TextProductive)

InSets(v) == { k \in {"none", "affirmation", "barb"} :
                 \/ k = "none" /\ v = NoPersonMessage
                 \/ k = "affirmation" /\ v \in Range(affirmations)
                 \/ k = "barb" /\ v \in Range(barbs) }

C11_VerdictMapping ==
    d_feedback # NoText =>
        /\ HasEmpty => d_feedback = NoPersonMessage
        /\ HasProductive /\ ~HasEmpty => d_feedback \in Range(affirmations)
        /\ ~HasProductive /\ ~HasEmpty => d_feedback \in Range(barbs)
        /\ Cardinality(InSets(d_feedback)) = 1

\* the text "Unproductive" (it contains "productive" and not "empty") was
\* given an affirmation
C11_Witness ==
    /\ d_analysis = << "U", "n" >> \o << "p", "r", "o", "d", "u", "c", "t", "i", "v", "e" >>
    /\ d_feedback \in Range(affirmations)

(***************************************************************************)
(* C12: when the classifier call for a sampled frame fails, the sample is  *)
(* skipped: from then on its analysis thread writes nothing to             *)
(* latest_feedback, to the feedback file, to either table or to the        *)
(* message queue, and forwards nothing to the sink.                        *)
(***************************************************************************)
C12_FailedSampleSkipped ==
    [][tcall = "failed" =>
          UNCHANGED << latest_feedback, feedback_file, sink_posts, local_rows,
                       neon_rows, message_queue >>]_vars

(***************************************************************************)
(* C13: in an analysis thread that got past the classification, every one  *)
(* of the steps after it (feedback file, sink, local insert, remote        *)
(* insert, enqueue) has been made when the thread ends, whichever of the   *)
(* other steps raised: the effect of a step is missing only if that step   *)
(* itself raised (or, for the sink and the remote table, is not            *)
(* configured).  In particular the message is queued whatever the inserts  *)
(* did.                                                                    *)
(***************************************************************************)
FramesQueued == { message_queue[i].data.frameNumber : i \in 1..Len(message_queue) }

C13_StepsIndependent ==
    tpc = "ended" /\ tfeedback # NoText =>
        /\ "file" \notin tfailed => feedback_file = tfeedback
        /\ sink_url /\ "sink" \notin tfailed =>
              /\ sink_posts # << >>
              /\ Last(sink_posts) = [feedback |-> tfeedback, timestamp |-> tstamp]
        /\ "local" \notin tfailed => tframe \in FramesIn(local_rows)
        /\ neon_url /\ "neon" \notin tfailed => tframe \in FramesIn(neon_rows)
        /\ "enqueue" \notin tfailed =>
              /\ message_queue # << >>
              /\ Last(message_queue) = FeedbackMessage
        /\ tfailed \subseteq {"file", "sink", "local", "neon", "enqueue"}

\* the file write, the post and both inserts raised and the message is queued
C13_Witness ==
    /\ tpc = "ended"
    /\ tfailed = {"file", "sink", "local", "neon"}
    /\ tframe \in FramesQueued

(***************************************************************************)
(* C14: the capture loop never waits for an analysis.  No analysis thread  *)
(* takes a step in SpecCapture, so every thread started stays in flight    *)
(* for good; with such threads in flight the capture thread can always     *)
(* take its next step, unless it waits for the lock a get_jpeg caller      *)
(* holds, and it goes on storing frames and counting them.                 *)
(***************************************************************************)
C14_CaptureNeverWaits ==
    dispatched # << >> /\ cpc # "done" /\ ~(cpc = "acquire" /\ lock = "get")
        => ENABLED CaptureStep

\* two more frames were stored and counted after the first thread was started
C14_Witness ==
    /\ dispatched # << >>
    /\ frame_count >= dispatched[1] + 2
    /\ Len(stored) = frame_count

(***************************************************************************)
(* C15: a capture or encode failure never ends the capture loop: as long   *)
(* as stop() has not been called the loop has not ended, whatever number   *)
(* of iterations failed, and a frame that was captured and encoded is the  *)
(* content of the buffer once its store is done.                           *)
(***************************************************************************)
C15_LoopSurvivesFailures ==
    /\ running => cpc # "done"
    /\ cpc \in {"count", "release", "check"} =>
          /\ last_jpeg = cframe
          /\ Last(stored) = cframe

\* two frames were lost to failed iterations and a later frame is in the
\* buffer
C15_Witness ==
    /\ running
    /\ stored # << >>
    /\ last_jpeg = Last(stored)
    /\ Cardinality({ f \in 1..Last(stored) : f \notin Range(stored) }) >= 2

(***************************************************************************)
(* C16 as stated: after one or more calls of stop(), also when releasing   *)
(* the device raises, _running is false and the device is released, the    *)
(* state one call leaves.                                                  *)
(***************************************************************************)
C16_StopIdempotent == stops >= 1 => ~running /\ device = "stopped"

(***************************************************************************)
(* C16 amended: every call of stop() returns and leaves _running false; a  *)
(* call whose release raises leaves the device as it was; and once a call  *)
(* has released the device, every further call leaves the flag and the     *)
(* device unchanged.                                                       *)
(***************************************************************************)
C16_StopSettles ==
    /\ [](stops >= 1 => ~running)
    /\ [][stops' > stops =>
             /\ device' \in {device, "stopped"}
             /\ stops >= 1 /\ device = "stopped" =>
                   UNCHANGED << running, device >>]_vars

\* stop() was called twice and the device is released
C16_Witness ==
    /\ stops = 2
    /\ ~running
    /\ device = "stopped"

(***************************************************************************)
(* C17: after stop() the capture loop ends: it stores at most the frame of *)
(* the iteration that was in progress, starts no iteration once it has     *)
(* seen the flag, and with the threads scheduled it reaches the end of     *)
(* _capture_loop.                                                          *)
(***************************************************************************)
C17_StopTerminates ==
    /\ [](stops >= 1 => Len(stored) <= stopStored + 1)
    /\ [][cpc = "done" => cpc' = "done"]_vars
    /\ (stops >= 1) ~> (cpc = "done")

\* the loop ended after storing the frame of the iteration stop() interrupted
C17_Witness ==
    /\ cpc = "done"
    /\ stops >= 1
    /\ Len(stored) = stopStored + 1

(***************************************************************************)
(* C18: before the first store get_jpeg returns None and frame_jpg answers *)
(* 503 with no bytes; once a frame has been stored the buffer is never     *)
(* None again, get_jpeg returns a frame and frame_jpg answers 200 with it. *)
(***************************************************************************)
C18_AbsentUntilFirstFrame ==
    /\ [](stored # << >> => last_jpeg # None)
    /\ [][\A g \in Getters :
             GetReads(g) =>
                /\ gret'[g] = None <=> stored = << >>
                /\ gresp'[g] =
                      Some(IF stored = << >>
                           THEN [status_code |-> 503, content |-> EmptyBytes]
                           ELSE [status_code |-> 200, content |-> Last(stored)])]_vars

\* one request was answered 503 before the first store, another 200 after it
C18_Witness ==
    \E g, h \in Getters :
        /\ gret[g] = None
        /\ gresp[g] = Some([status_code |-> 503, content |-> EmptyBytes])
        /\ gresp[h] # NoData
        /\ gresp[h][1].status_code = 200

(***************************************************************************)
(* C19: no queued feedback message is lost: queue_message always appends   *)
(* its message, the messages in the queue are the latest ones queued in    *)
(* the order they were queued, and a message leaves the queue only by      *)
(* process_queue taking it from the head and passing it to broadcast (a    *)
(* broadcast over an empty list of connections sends it to nobody).        *)
(***************************************************************************)
TakenFromQueue == Range(message_queue) \ Range(message_queue')

C19_NoMessageLost ==
    /\ [](\A i \in 1..Len(message_queue) :
             message_queue[i] = nmsg - Len(message_queue) + i)
    /\ [][/\ nmsg' = nmsg + 1 => message_queue' = Append(message_queue, nmsg')
          /\ \A m \in TakenFromQueue :
                \/ \E c \in Conns : hpc'[c] = "bcast_sending" /\ bmsg'[c] = m
                \/ active_connections' = << >>]_vars

\* the first message is being broadcast while the second waits in the queue
C19_Witness ==
    /\ message_queue = << 2 >>
    /\ \E c \in Conns : hpc[c] = "bcast_sending" /\ bmsg[c] = 1

(***************************************************************************)
(* C20: feedback messages are delivered in FIFO order: every connection    *)
(* that stays open receives its feedback messages in the order in which    *)
(* they were queued, with any number of connections open, each running its *)
(* own handler loop.                                                       *)
(***************************************************************************)
C20_FifoDelivery ==
    \A c \in Conns :
        calive[c] =>
            \A i, j \in 1..Len(got[c]) : i < j => got[c][i] < got[c][j]

(***************************************************************************)
(* C21: a feedback message is sent to any one connection at most once,     *)
(* whatever the interleaving of connects, disconnects and process_queue    *)
(* calls: no message occurs twice among the messages a connection got, and *)
(* once the broadcast of a message has finished (it was taken from the     *)
(* queue and no handler is sending it) no step puts it back in the queue,  *)
(* starts a broadcast of it or delivers it to a connection, so a           *)
(* connection added later never gets it.                                   *)
(***************************************************************************)
Finished(m) ==
    /\ m <= nmsg
    /\ \A i \in 1..Len(message_queue) : message_queue[i] # m
    /\ \A c \in Conns : hpc[c] = "bcast_sending" => bmsg[c] # m

\* a step delivers a message to connection c
Delivers(c) == Len(got'[c]) > Len(got[c])

\* in a step handler c begins the broadcast of a message
Takes(c) ==
    /\ hpc'[c] = "bcast_sending"
    /\ ~(hpc[c] = "bcast_sending" /\ bmsg[c] = bmsg'[c])

C21_AtMostOncePerConnection ==
    /\ [](\A c \in Conns : \A i, j \in 1..Len(got[c]) :
             i < j => got[c][i] # got[c][j])
    /\ [][/\ nmsg' >= nmsg
          /\ \A i \in 1..Len(message_queue') : ~Finished(message_queue'[i])
          /\ \A c \in Conns :
                /\ Delivers(c) => LET m == Last(got'[c]) IN ~Finished(m)
                /\ Takes(c) => LET m == bmsg'[c] IN ~Finished(m)]_vars

\* both broadcasts have finished; one connection got both messages, another
\* one, which is still open, got only the second
C21_Witness ==
    /\ Finished(1) /\ Finished(2)
    /\ \E c, d \in Conns :
          /\ calive[c]
          /\ got[c] = << 2 >>
          /\ got[d] = << 1, 2 >>

(***************************************************************************)
(* C22: post_feedback_to_sink makes no outbound call when FEEDBACK_SINK_URL *)
(* is not set and exactly one when it is, whether the call fails or not (a *)
(* failed call is not made again), and it always returns to analyze(),     *)
(* whose next step is the local insert.                                    *)
(***************************************************************************)
SinkReturned == "sink" \in Range(tsteps)

C22_OneSinkCall ==
    /\ [](tcalls = IF SinkReturned /\ sink_url THEN 1 ELSE 0)
    /\ [][tpc = "sink" => tpc' = "local"]_vars

\* the one call to the sink failed and the thread went on to its last step
C22_Witness ==
    /\ sink_url
    /\ "sink" \in tfailed
    /\ tcalls = 1
    /\ sink_posts = << >>
    /\ tpc = "ended"
    /\ Last(tsteps) = "enqueue"

(***************************************************************************)
(* C23: self._lock is never held during I/O or an external call.  The      *)
(* capture thread holds it only for the two assignments of its with block, *)
(* so not while it captures, encodes, dispatches an analysis, backs off or *)
(* sleeps; a get_jpeg caller holds it only inside get_jpeg, so not while   *)
(* it builds or sends its response; at most one thread holds it.  (The     *)
(* analysis thread, which makes the classifier call, the writes and the    *)
(* forward, never takes the lock.)                                         *)
(***************************************************************************)
CaptureOutsideWith ==
    cpc \in {"top", "capture", "encode", "acquire", "check", "backoff", "sleep",
             "done"}

C23_LockNotHeldDuringIO ==
    /\ CaptureOutsideWith => lock # "capture"
    /\ lock = "capture" => \A g \in Getters : gpc[g] = "idle"
    /\ lock = "get" => Cardinality({g \in Getters : gpc[g] = "locked"}) = 1
    /\ lock = "free" => \A g \in Getters : gpc[g] = "idle"

\* the capture thread is in capture_array for its second frame while a
\* get_jpeg caller holds the lock, another having answered 200 already
C23_Witness ==
    /\ cpc = "capture"
    /\ Len(stored) = 1
    /\ lock = "get"
    /\ \E g \in Getters : gpc[g] = "idle" /\ gresp[g] # NoData
                             /\ gresp[g][1].status_code = 200

(***************************************************************************)
(* C24: access to latest_feedback is mutually exclusive: the response a    *)
(* reader sends is one value the dict held while the request was served,   *)
(* never a mixture of the fields of two records, and no record is written  *)
(* between a poll's test of is_new and its clearing of it.                 *)
(***************************************************************************)
PollBetweenTestAndClear(p) == ppc[p] \in {"test_feedback", "clear"}

C24_MutualExclusion ==
    /\ [](jpc = "sent" => jres \in jheld)
    /\ [][nrec' # nrec => \A p \in Polls : ~PollBetweenTestAndClear(p)]_vars

(***************************************************************************)
(* C25: a classifier answer that contains "empty" gives a full record like *)
(* any other: its feedback is the fixed no-person message, and when the    *)
(* thread ends the record with that message is in the local table, in the  *)
(* remote table if one is configured, and in the message queue (each       *)
(* unless that very write raised).                                         *)
(***************************************************************************)
AnsweredEmpty ==
    /\ tcontent # << >>
    /\ tcontent[1] # NoData
    /\ Contains(Lower(tcontent[1][1]), TextEmpty)

NoPersonRecord(row) ==
    /\ row.frame_number = tframe
    /\ row.analysis = tcontent[1][1]
    /\ row.feedback = NoPersonMessage

C25_EmptyStillRecorded ==
    AnsweredEmpty =>
        /\ tpc # "verdict" => tfeedback = NoPersonMessage
        /\ tpc = "ended" =>
              /\ "local" \notin tfailed => \E row \in local_rows : NoPersonRecord(row)
              /\ neon_url /\ "neon" \notin tfailed =>
                    \E row \in neon_rows : NoPersonRecord(row)
              /\ "enqueue" \notin tfailed =>
                    \E i \in 1..Len(message_queue) :
                        /\ message_queue[i].data.frameNumber = tframe
                        /\ message_queue[i].data.analysis = tcontent[1][1]
                        /\ message_queue[i].data.feedback = NoPersonMessage

\* the answer was "empty" and the no-person record is in both tables and in
\* the queue
C25_Witness ==
    /\ AnsweredEmpty
    /\ tpc = "ended"
    /\ \E row \in local_rows : NoPersonRecord(row)
    /\ \E row \in neon_rows : NoPersonRecord(row)
    /\ message_queue # << >>
    /\ Last(message_queue).data.feedback = NoPersonMessage

(***************************************************************************)
(* C26: both feedback tables are append-only: every step keeps each row    *)
(* that exists, with its id, timestamp, frame_number, analysis and         *)
(* feedback as they are, so the set of rows only grows, and no id is ever  *)
(* given to two rows.                                                      *)
(***************************************************************************)
UniqueIds(rows) == \A r1, r2 \in rows : r1.id = r2.id => r1 = r2

C26_AppendOnly ==
    /\ [](UniqueIds(local_rows) /\ UniqueIds(neon_rows))
    /\ [][local_rows \subseteq local_rows' /\ neon_rows \subseteq neon_rows']_vars

\* two records have been inserted into both tables
C26_Witness ==
    /\ Cardinality(local_rows) = 2
    /\ Cardinality(neon_rows) = 2
    /\ { r.id : r \in local_rows } = {1, 2}

(***************************************************************************)
(* C27: one analysis gives one consistent record everywhere.  For the      *)
(* sampled frame k whose classifier call returned the text T, what the     *)
(* thread writes to latest_feedback, to the local table, to the remote     *)
(* table and to the message queue carries frame number k, analysis exactly *)
(* T, one verdict and one timestamp; each of the four is written once, by  *)
(* the step that is there for it and not before (a write is missing only   *)
(* if that step raised or, for the remote table, no remote is configured). *)
(***************************************************************************)
Returned == tcontent # << >> /\ tcontent[1] # NoData

TheRecord ==
    [timestamp |-> tstamp, frame_number |-> tframe, analysis |-> tcontent[1][1],
     feedback |-> tfeedback]

RowsOfFrame(rows) == { r \in rows : r.frame_number = tframe }

MessagesOfFrame ==
    { i \in 1..Len(message_queue) : message_queue[i].data.frameNumber = tframe }

WrittenOnce(rows, step, configured) ==
    IF step \in Range(tsteps) /\ step \notin tfailed /\ configured
    THEN /\ Cardinality(RowsOfFrame(rows)) = 1
         /\ \A r \in RowsOfFrame(rows) :
               [timestamp |-> r.timestamp, frame_number |-> r.frame_number,
                analysis |-> r.analysis, feedback |-> r.feedback] = TheRecord
    ELSE RowsOfFrame(rows) = {}

C27_OneConsistentRecord ==
    Returned =>
        /\ Len(tsteps) = Cardinality(Range(tsteps))
        /\ "update" \in Range(tsteps) =>
              latest_feedback = [feedback |-> tfeedback,
                                 analysis |-> tcontent[1][1],
                                 frame_number |-> tframe, timestamp |-> tstamp,
                                 is_new |-> TRUE]
        /\ WrittenOnce(local_rows, "local", TRUE)
        /\ WrittenOnce(neon_rows, "neon", neon_url)
        /\ IF "enqueue" \in Range(tsteps) /\ "enqueue" \notin tfailed
           THEN /\ Cardinality(MessagesOfFrame) = 1
                /\ \A i \in MessagesOfFrame :
                      message_queue[i] =
                          [type |-> "feedback",
                           data |-> [analysis |-> tcontent[1][1],
                                     feedback |-> tfeedback,
                                     frameNumber |-> tframe],
                           timestamp |-> tstamp]
           ELSE MessagesOfFrame = {}

\* the answer "productive" for frame 2: an affirmation, and the record is in
\* latest_feedback, in both tables and in the queue
C27_Witness ==
    /\ tcontent = << Some(TextProductive) >>
    /\ tfeedback \in Range(affirmations)
    /\ tpc = "ended"
    /\ tfailed = {}
    /\ latest_feedback.frame_number = tframe
    /\ Cardinality(RowsOfFrame(local_rows)) = 1
    /\ Cardinality(RowsOfFrame(neon_rows)) = 1
    /\ Cardinality(MessagesOfFrame) = 1

(***************************************************************************)
(* C28: after the classification an analysis thread makes its steps in the *)
(* order: local insert, remote insert, enqueue of the broadcast message,   *)
(* then the forward to the external sink -- a later one of these is never  *)
(* made before an earlier one.                                             *)
(***************************************************************************)
MadeBefore(a, b) ==
    \A j \in 1..Len(tsteps) :
        tsteps[j] = b => \E i \in 1..(j - 1) : tsteps[i] = a

C28_StoreEnqueueForward ==
    /\ MadeBefore("local", "neon")
    /\ MadeBefore("neon", "enqueue")
    /\ MadeBefore("enqueue", "sink")

(***************************************************************************)
(* C29: the frame counter never decreases and is one more for each frame   *)
(* stored, atomically with the store: whenever the lock is free the        *)
(* counter equals the number of frames stored since the start (it may be   *)
(* missing only while nothing is stored).  Stated for GroqCameraManager,   *)
(* whose __init__ is still running beside the capture thread it started.   *)
(***************************************************************************)
C29_CounterCountsStores ==
    /\ [](g_lock = "free" =>
             IF g_frame_count = Unset THEN g_stored = 0
             ELSE g_frame_count = g_stored)
    /\ [][g_frame_count' >= g_frame_count]_vars

(***************************************************************************)
(* C30: stop() does not cancel the analyses in flight and does not wait    *)
(* for them.  stop() can be called whatever an analysis thread is doing    *)
(* and changes nothing of the thread; a thread that is in flight when      *)
(* stop() has been called goes on to its end, and one that got its verdict *)
(* makes its whole sequence: update of latest_feedback, feedback file,     *)
(* forward, local insert, remote insert, enqueue.                          *)
(***************************************************************************)
InFlight == tpc \notin {"none", "ended"}

WholeSequence == << "update", "file", "sink", "local", "neon", "enqueue" >>

handlerState == << active_connections, hpc, calive, bmsg, bidx, btarget,
                   bstart, got, sendFailed, lateSend, attempts, removals,
                   removeRaised >>

\* the step is one of the analysis thread
WorkerStep == tpc' # tpc

\* the thread's queue_message has returned normally
Enqueued == "enqueue" \in Range(tsteps) /\ "enqueue" \notin tfailed

C31_WorkerNeverTouchesConnections ==
    /\ [](tseen = Unset)
    /\ [][WorkerStep => UNCHANGED handlerState]_vars
    /\ [][WorkerStep /\ message_queue' # message_queue =>
             message_queue' = Append(message_queue, FeedbackMessage)]_vars
    /\ [](\A c \in Conns : \A i \in 1..Len(got[c]) :
             Enqueued /\ got[c][i] = FeedbackMessage)

(***************************************************************************)
(* C32: in the local store row ids and row timestamps are ordered alike,   *)
(* whatever the interleaving of the analysis threads: a row with a smaller *)
(* id never has a larger timestamp, so the row with the highest id has the *)
(* highest timestamp.                                                      *)
(***************************************************************************)
C32_IdOrderIsTimeOrder ==
    \A r1, r2 \in local_rows : r1.id < r2.id => r1.timestamp <= r2.timestamp

(***************************************************************************)
(* C33: latest_feedback always holds the record of the most recent sample: *)
(* no write of an analysis thread lowers the frame_number it holds,        *)
(* whatever the interleaving of the threads.                               *)
(***************************************************************************)
C33_LatestFrameNeverDecreases ==
    [][latest_feedback'.frame_number >= latest_feedback.frame_number]_vars

(***************************************************************************)
(* C34: a failed capture iteration has no effect on shared state.  The     *)
(* except clause is entered only from the capture or the encoding, with    *)
(* the lock not held by the capture thread; from the top of the loop to    *)
(* the end of the except clause no step changes the buffer, frame_count or *)
(* the analyses dispatched; and from the except clause the iteration goes  *)
(* to its sleep, past the store, the count and the dispatch test.          *)
(***************************************************************************)
\* the capture thread is in an iteration that has not reached the with block,
\* or in its except clause
BeforeCriticalSection == cpc \in {"top", "capture", "encode", "backoff"}

sharedByCapture == << last_jpeg, frame_count, dispatched, stored >>

C34_FailedIterationNoEffect ==
    /\ [][cpc' = "backoff" /\ cpc # "backoff" =>
             cpc \in {"capture", "encode"}]_vars
    /\ [](cpc = "backoff" => lock # "capture")
    /\ [][BeforeCriticalSection => UNCHANGED sharedByCapture]_vars
    /\ [][cpc = "backoff" => cpc' \in {"backoff", "sleep"}]_vars

\* after two frames were stored a third was captured and its encoding failed:
\* the buffer and the counter are those of the second frame, and the one
\* analysis dispatched is that of the second frame
C34_Witness ==
    /\ cpc = "backoff"
    /\ devSeq = 3
    /\ stored = << 1, 2 >>
    /\ last_jpeg = 2
    /\ frame_count = 2
    /\ dispatched = << 2 >>

(***************************************************************************)
(* C35: when the handler of a connection has terminated, by the caught     *)
(* WebSocketDisconnect or by any other exception of its frame send, the    *)
(* handle of the connection is not on active_connections.                  *)
(***************************************************************************)
HandlerFinished(c) == hpc[c] \in {"disconnected", "crashed"}

C35_FinishedHandlerOffList ==
    \A c \in Conns : HandlerFinished(c) => c \notin Range(active_connections)

(***************************************************************************)
(* C36: the queue is drained only from inside the handler loops.  While no *)
(* handler runs, the messages queued stay in the queue in the order they   *)
(* were queued and none is delivered; a message leaves the queue only in a *)
(* step of a running handler; and the messages that were queued before the *)
(* first connection opened are all delivered, in the order queued, to the  *)
(* connection whose handler runs process_queue first: when the queue is    *)
(* drained, no broadcast is under way and every client is still there,     *)
(* some connection has received all of them in that order.                 *)
(***************************************************************************)
HandlerRunning(c) == hpc[c] \notin {"new", "disconnected", "crashed"}

\* the messages 1..n in the order queued
InOrder(n) == [i \in 1..n |-> i]

\* every queued message was taken, every broadcast has ended and no client
\* has gone away
Drained ==
    /\ ~NoneOpened
    /\ message_queue = << >>
    /\ \A c \in Conns : hpc[c] # "bcast_sending" /\ calive[c]

PipelineSilent ==
    /\ dispatched = << >>
    /\ nsamples = 0
    /\ tpc = "none"
    /\ latest_feedback = NoFeedback
    /\ local_rows = {}
    /\ neon_rows = {}
    /\ message_queue = << >>
    /\ feedback_file = NoText
    /\ sink_posts = << >>

\* the buffer and the counter follow the frames stored
StoredAndCounted ==
    /\ last_jpeg = IF stored = << >> THEN None ELSE Last(stored)
    /\ lock # "capture" => frame_count = Len(stored)
    /\ \A i \in 1..Len(stored) : i > 1 => stored[i - 1] < stored[i]

C37_NoClientNoAnalysis ==
    /\ ~groq_client => PipelineSilent
    /\ StoredAndCounted

\* without a client four frames were stored and counted and the dispatch
\* test was passed at the counter values 2 and 4
C37_Witness ==
    /\ ~groq_client
    /\ cpc = "sleep"
    /\ frame_count = 2 * analysis_interval
    /\ Len(stored) = 2 * analysis_interval
    /\ last_jpeg = Last(stored)
    /\ PipelineSilent

(***************************************************************************)
(* C38: the four implementations of determine_image_productivity agree on  *)
(* the class of the verdict: for every analysis text the values returned   *)
(* by main.py, groq_integrated_main.py, groq_camera_analyzer.py and        *)
(* groq/webcam.py are all no-subject messages, all affirmations or all     *)
(* admonishments.                                                          *)
(***************************************************************************)
VerdictClass(v) ==
    IF v \in {NoPersonMessage, NoPersonInImage} THEN "no-subject"
    ELSE IF v \in Range(affirmations) \cup Range(short_affirmations)
         THEN "affirmation"
         ELSE "admonishment"

AllReturned ==
    /\ d_feedback # NoText
    /\ d_webcam # NoText
    /\ d_analyzer # NoText
    /\ d_integrated # NoText

C38_SameVerdictClass ==
    AllReturned =>
        /\ VerdictClass(d_webcam) = VerdictClass(d_feedback)
        /\ VerdictClass(d_analyzer) = VerdictClass(d_feedback)
        /\ VerdictClass(d_integrated) = VerdictClass(d_feedback)


====
